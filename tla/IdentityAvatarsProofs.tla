------------------------- MODULE IdentityAvatarsProofs -------------------------
(***************************************************************************)
(* Proofs about IdentityAvatars, for any number of names, presets,         *)
(* replicas, calls, retries and faults.                                    *)
(***************************************************************************)
EXTENDS IdentityAvatars, TLAPS

-----------------------------------------------------------------------------
(* Type correctness, one group of variables at a time.                      *)

Most == 1 + MaxCrashes + MaxSlow + MaxFaults

EventType ==
    event \in [Events -> [status : {"absent", "fresh", "pending", "acked"}, count : 0..Most]]

HandType ==
    hand \in [Consumers -> [pc : {"idle", "assign", "assets", "avatar", "audit", "done", "failed"},
                            event : Events, seen : 1..Most]]

CallType ==
    call \in [Writers -> [pc : {"idle", "put", "purge", "audit", "residue"},
                          todo : SUBSET Names, name : Names,
                          choice : Choices \cup {NoChoice, "planned"}]]

AvatarType == avatar \in [Names -> Choices \cup {"none", "default", "planned"}]

FlagType ==
    /\ legacy \in [Names -> BOOLEAN]
    /\ named \in BOOLEAN /\ chosen \in BOOLEAN /\ raced \in BOOLEAN /\ quiet \in BOOLEAN

BoundType ==
    /\ saves \in 0..MaxSaves /\ slow \in 0..MaxSlow
    /\ faults \in 0..MaxFaults /\ crashes \in 0..MaxCrashes

LEMMA TypesInGroups ==
    TypeOK <=> EventType /\ HandType /\ CallType /\ AvatarType /\ FlagType /\ BoundType
  BY DEF TypeOK, EventType, HandType, CallType, AvatarType, FlagType, BoundType, Most

\* A delivery is the first, or is paid for by an error, a death or a slow
\* handler; while nobody works on a pending event its last delivery has been
\* paid for too.
Healthy(e) == \E h \in Consumers : hand[h].pc \notin {"idle", "failed"} /\ hand[h].event = e

Paid ==
    \A e \in Events :
        /\ event[e].count <= 1 + Used
        /\ event[e].status = "pending" /\ ~Healthy(e) => event[e].count <= Used
        /\ event[e].status \in {"absent", "fresh"} => event[e].count = 0

\* A call stores what its user has chosen, the script what it has planned.
Meant ==
    \A c \in Writers : call[c].pc \in {"put", "purge"} =>
        IF c = "script" THEN call[c].choice = "planned" ELSE call[c].choice \in Choices

Typed == TypeOK /\ Paid /\ Meant

LEMMA AvatarsTypedInit == Init => Typed
  <1> SUFFICES ASSUME Init
               PROVE  Typed
    OBVIOUS
  <1>1. EventType /\ HandType /\ BoundType /\ AvatarType
    BY IdentityConstantsOK DEF Init, EventType, HandType, BoundType, AvatarType, Free, Events, Most,
         IdentityConstantsOK
  <1>2. CallType
    BY DEF Init, CallType, NoCall, Names
  <1>3. FlagType
    BY Zenon DEF Init, FlagType
  <1>4. Paid
    BY IdentityConstantsOK DEF Init, Paid, Used, IdentityConstantsOK, Events
  <1>5. Meant
    BY DEF Init, Meant, NoCall
  <1> QED
    BY <1>1, <1>2, <1>3, <1>4, <1>5, TypesInGroups DEF Typed

LEMMA UsedInBounds ==
    ASSUME BoundType
    PROVE  Used \in Nat /\ 1 + Used <= Most /\ crashes \in Nat /\ slow \in Nat /\ faults \in Nat /\ Most \in Nat
  BY IdentityConstantsOK DEF BoundType, Used, Most, IdentityConstantsOK

LEMMA SumInBounds ==
    ASSUME NEW c \in 0..MaxCrashes, NEW l \in 0..MaxSlow, NEW f \in 0..MaxFaults
    PROVE  c + l + f \in Nat /\ 1 + (c + l + f) <= Most
  BY IdentityConstantsOK DEF Most, IdentityConstantsOK

LEMMA UsedInBoundsNext ==
    ASSUME BoundType'
    PROVE  Used' \in Nat /\ 1 + Used' <= Most
  <1>1. slow' \in 0..MaxSlow /\ faults' \in 0..MaxFaults /\ crashes' \in 0..MaxCrashes
    BY DEF BoundType
  <1> QED
    BY <1>1, SumInBounds, Zenon DEF Used

\* What the writers do stays typed.
LEMMA WritersTyped ==
    ASSUME TypeOK, Meant, [Next]_vars
    PROVE  CallType' /\ Meant'
  <1>0. CallType
    BY TypesInGroups
  <1>1. CASE UNCHANGED call
    BY <1>0, <1>1 DEF CallType, Meant
  <1>2. ASSUME NEW c \in Calls, NEW v \in Choices, Save(c, v)
        PROVE  CallType' /\ Meant'
    <2>1. c \in Writers /\ c # "script"
      BY IdentityConstantsOK DEF Writers, IdentityConstantsOK
    <2>2. call' = [call EXCEPT ![c] = [pc |-> "put", todo |-> Alias, name |-> Sub, choice |-> v]]
      BY <1>2 DEF Save
    <2>3. CallType'
      BY <1>0, <2>1, <2>2 DEF CallType, Names
    <2> QED
      BY <1>0, <2>1, <2>2, <2>3 DEF CallType, Meant
  <1>3. CASE Fetch
    <2>1. "script" \in Writers
      BY DEF Writers
    <2>2. PICK n \in Names : call' = [call EXCEPT !["script"] = Plan(n)]
      BY <1>3 DEF Fetch, Names
    <2>3. CallType'
      BY <1>0, <2>1, <2>2 DEF CallType, Plan
    <2> QED
      BY <1>0, <2>1, <2>2, <2>3 DEF CallType, Plan, Meant
  <1>4. ASSUME NEW c \in Writers, Put(c) \/ Purge(c)
        PROVE  CallType' /\ Meant'
    <2>1. CASE Over(c)
      <3>1. call' = [call EXCEPT ![c] = NoCall] \/ call' = [call EXCEPT ![c] = [NoCall EXCEPT !.pc = "residue"]]
        BY <2>1 DEF Over
      <3>2. CallType'
        BY <1>0, <3>1 DEF CallType, NoCall, Names
      <3>3. \A d \in Writers : call'[d].pc \in {"put", "purge"} => call'[d] = call[d]
        BY <1>0, <3>1 DEF CallType, NoCall
      <3> QED
        BY <3>2, <3>3 DEF Meant
    <2>2. CASE \E pc \in {"purge", "audit"} : call' = [call EXCEPT ![c].pc = pc]
      <3>1. CallType'
        BY <1>0, <2>2 DEF CallType
      <3>2. \A d \in Writers : call'[d].choice = call[d].choice
        BY <1>0, <2>2 DEF CallType
      <3>3. \A d \in Writers : call'[d].pc \in {"put", "purge"} => call[d].pc \in {"put", "purge"}
        BY <1>0, <1>4, <2>2 DEF CallType, Put, Purge
      <3> QED
        BY <3>1, <3>2, <3>3 DEF Meant
    <2>3. CASE Purge(c) /\ \E m \in call[c].todo :
             call' = [call EXCEPT ![c].pc = "put", ![c].name = m, ![c].todo = @ \ {m}]
      <3> PICK m \in call[c].todo :
             call' = [call EXCEPT ![c].pc = "put", ![c].name = m, ![c].todo = @ \ {m}]
        BY <2>3
      <3>1. m \in Names
        BY <1>0 DEF CallType
      <3>2. CallType'
        BY <1>0, <3>1 DEF CallType
      <3>3. \A d \in Writers : call'[d].choice = call[d].choice
        BY <1>0 DEF CallType
      <3>4. \A d \in Writers : call'[d].pc \in {"put", "purge"} => call[d].pc \in {"put", "purge"}
        BY <1>0, <2>3 DEF CallType, Purge
      <3> QED
        BY <3>2, <3>3, <3>4 DEF Meant
    <2> QED
      BY <1>4, <2>1, <2>2, <2>3 DEF Put, Purge
  <1>5. ASSUME NEW c \in Writers, Log(c) \/ (c = "script" /\ Residue)
        PROVE  CallType' /\ Meant'
    <2>1. CallType'
      BY <1>0, <1>5 DEF CallType, Log, Residue, Over, NoCall, Names
    <2>2. /\ \A d \in Writers : d # c => call'[d] = call[d]
          /\ call'[c].pc \notin {"put", "purge"}
      BY <1>0, <1>5 DEF CallType, Log, Residue, Over, NoCall
    <2> QED
      BY <2>1, <2>2 DEF Meant
  <1>6. "script" \in Writers
    BY DEF Writers
  <1> QED
    BY <1>1, <1>2, <1>3, <1>4, <1>5, <1>6 DEF Next, Emit, Handle, Assign, WipeAssets, WipeAvatar, Anonymize,
         Done, GiveUp, Crash, Deliver, Reclaim, vars

LEMMA RowsTyped ==
    ASSUME TypeOK, Meant, [Next]_vars
    PROVE  AvatarType' /\ FlagType'
  <1>0. CallType /\ AvatarType /\ FlagType
    BY TypesInGroups
  <1>1. CASE UNCHANGED rowVars
    BY <1>0, <1>1 DEF rowVars, AvatarType, FlagType
  <1>2. AvatarType'
    <2>1. CASE \E c \in Writers : Put(c)
      <3> PICK c \in Writers : Put(c)
        BY <2>1
      <3>1. call[c].name \in Names /\ call[c].choice \in Choices \cup {"planned"}
        BY <1>0 DEF CallType, Put, Meant
      <3> QED
        BY <1>0, <3>1 DEF AvatarType, Put
    <2>2. CASE UNCHANGED avatar
      BY <1>0, <2>2 DEF AvatarType
    <2>3. CASE \E h \in Consumers : Assign(h) \/ WipeAvatar(h)
      BY <1>0, <2>3 DEF AvatarType, Assign, WipeAvatar
    <2> QED
      BY <2>1, <2>2, <2>3 DEF Next, Emit, Handle, WipeAssets, Anonymize, Done, GiveUp, Crash, Deliver,
           Reclaim, Save, Purge, Log, Fetch, Residue, vars, rowVars
  <1>3. FlagType'
    <2>1. CASE UNCHANGED <<legacy, named, chosen, raced>> /\ quiet' \in BOOLEAN
      BY <1>0, <2>1 DEF FlagType
    <2>2. ASSUME NEW e \in Events, Emit(e)
          PROVE  FlagType'
      <3>1. quiet' \in BOOLEAN
        BY <2>2, Zenon DEF Emit
      <3> QED
        BY <2>1, <2>2, <3>1 DEF Emit
    <2>3. CASE \E h \in Consumers : WipeAssets(h) \/ Anonymize(h)
      BY <1>0, <2>3 DEF FlagType, WipeAssets, Anonymize
    <2>4. CASE \E h \in Consumers : WipeAvatar(h) \/ GiveUp(h)
      <3> PICK h \in Consumers : WipeAvatar(h) \/ GiveUp(h)
        BY <2>4
      <3>1. quiet' \in BOOLEAN
        BY <1>0, Zenon DEF FlagType, WipeAvatar, GiveUp
      <3>2. UNCHANGED <<legacy, named, raced>> /\ (chosen' = chosen \/ chosen' = FALSE)
        BY DEF WipeAvatar, GiveUp
      <3> QED
        BY <1>0, <3>1, <3>2 DEF FlagType
    <2>5. CASE \E c \in Writers : Put(c)
      <3> PICK c \in Writers : Put(c)
        BY <2>5
      <3>1. chosen' \in BOOLEAN /\ raced' \in BOOLEAN
        BY <1>0, Zenon DEF FlagType, Put
      <3> QED
        BY <1>0, <3>1 DEF FlagType, Put
    <2>6. CASE \E c \in Writers : Purge(c) \/ Log(c)
      BY <1>0, <2>6 DEF FlagType, Purge, Log
    <2>7. CASE Residue
      BY <1>0, <2>7 DEF FlagType, Residue
    <2>8. CASE UNCHANGED rowVars
      BY <1>1, <2>8
    <2>9. CASE \E h \in Consumers : Assign(h)
      BY <1>0, <2>9 DEF FlagType, Assign
    <2> QED
      BY <2>2, <2>3, <2>4, <2>5, <2>6, <2>7, <2>8, <2>9 DEF Next, Handle, Done, Crash, Deliver,
           Reclaim, Save, Fetch, vars
  <1> QED
    BY <1>2, <1>3

-----------------------------------------------------------------------------
(* The events.                                                              *)

LEMMA EventsTyped ==
    ASSUME Typed, [Next]_vars
    PROVE  EventType' /\ HandType' /\ BoundType' /\ Paid'
  <1>0. EventType /\ HandType /\ BoundType /\ Paid
    BY TypesInGroups DEF Typed
  <1>1. Used \in Nat /\ 1 + Used <= Most /\ Most \in Nat /\ crashes \in Nat /\ slow \in Nat /\ faults \in Nat
    BY <1>0, UsedInBounds
  <1>2. CASE UNCHANGED <<event, hand, slow, faults, crashes>> /\ saves' \in {saves, saves + 1}
              /\ (saves' = saves \/ saves < MaxSaves)
    BY <1>0, <1>2, IdentityConstantsOK DEF EventType, HandType, BoundType, Paid, Used, Healthy, IdentityConstantsOK
  <1>3. CASE UNCHANGED <<event, hand, saves, slow, crashes>> /\ faults < MaxFaults /\ faults' = faults + 1
    <2>1. BoundType' /\ Used' = Used + 1
      BY <1>0, <1>3, IdentityConstantsOK DEF BoundType, Used, IdentityConstantsOK
    <2>2. \A e \in Events : event[e].count \in Nat
      BY <1>0 DEF EventType
    <2>3. \A e \in Events : Healthy(e)' <=> Healthy(e)
      BY <1>3 DEF Healthy
    <2>4. Paid'
      BY <1>0, <1>1, <1>3, <2>1, <2>2, <2>3 DEF Paid
    <2> QED
      BY <1>0, <1>3, <2>1, <2>4 DEF EventType, HandType
  <1>4. ASSUME NEW e \in Events, Emit(e)
        PROVE  EventType' /\ HandType' /\ BoundType' /\ Paid'
    <2>1. EventType' /\ HandType' /\ BoundType'
      BY <1>0, <1>4 DEF Emit, EventType, HandType, BoundType, envVars
    <2>2. UNCHANGED <<hand, slow, faults, crashes>> /\ event[e].status = "absent"
          /\ \A f \in Events : event'[f].count = event[f].count /\ (f # e => event'[f] = event[f])
          /\ event'[e].status = "fresh"
      BY <1>0, <1>4 DEF Emit, EventType, envVars
    <2> QED
      BY <1>0, <2>1, <2>2 DEF Paid, Used, Healthy
  <1>5. ASSUME NEW h \in Consumers, NEW e \in Events, Deliver(h, e) \/ Reclaim(h, e)
        PROVE  EventType' /\ HandType' /\ BoundType' /\ Paid'
    <2>1. /\ event[e].count \in Nat /\ (event[e].count <= Used \/ slow' = slow + 1)
          /\ event[e].count <= 1 + Used /\ hand[h].pc = "idle"
      <3>1. event[e].count \in Nat /\ event[e].count <= 1 + Used
        BY <1>0 DEF EventType, Paid
      <3>2. CASE Deliver(h, e)
        BY <1>0, <1>1, <3>1, <3>2 DEF Deliver, Paid
      <3>3. CASE Reclaim(h, e) /\ ~Held(e)
        <4>1. ~Healthy(e)
          BY <3>3 DEF Held, Healthy
        <4> QED
          BY <1>0, <3>1, <3>3, <4>1 DEF Reclaim, Paid
      <3> QED
        BY <1>5, <3>1, <3>2, <3>3 DEF Reclaim, Deliver
    <2>2. BoundType'
      <3>1. /\ saves' = saves /\ crashes' = crashes
            /\ faults' = faults \/ (faults < MaxFaults /\ faults' = faults + 1)
            /\ slow' = slow \/ (slow < MaxSlow /\ slow' = slow + 1)
        BY <1>5 DEF Deliver, Reclaim, HoldCounted
      <3> QED
        BY <1>0, <3>1, IdentityConstantsOK DEF BoundType, IdentityConstantsOK
    <2>3. Used' \in Nat /\ 1 + Used' <= Most /\ Used' >= Used /\ (slow' = slow + 1 => Used' >= Used + 1)
      <3>1. /\ crashes' = crashes
            /\ faults' = faults \/ faults' = faults + 1
            /\ slow' = slow \/ slow' = slow + 1
        BY <1>5 DEF Deliver, Reclaim, HoldCounted
      <3>2. Used' = crashes' + slow' + faults' /\ Used = crashes + slow + faults
        BY DEF Used
      <3>3. Used' >= Used /\ (slow' = slow + 1 => Used' >= Used + 1)
        BY <1>1, <3>1, <3>2
      <3> QED
        BY <2>2, <3>3, UsedInBoundsNext
    <2>4. event[e].count + 1 <= 1 + Used' /\ event[e].count + 1 \in 1..Most
      <3>1. event[e].count <= Used'
        BY <1>1, <2>1, <2>3
      <3> DEFINE n == event[e].count  u == Used'
      <3>2. n \in Nat /\ u \in Nat /\ 1 + u <= Most /\ n <= u /\ Most \in Nat
        BY <1>1, <2>1, <2>3, <3>1
      <3> HIDE DEF n, u
      <3>3. n + 1 <= 1 + u /\ n + 1 \in 1..Most
        BY <3>2
      <3> QED
        BY <3>3 DEF n, u
    <2>5. PICK n \in 1..Most : Hold(h, e, n)
      BY <1>1, <1>5, <2>3, <2>4 DEF Deliver, Reclaim, HoldCounted
    <2>6. EventType' /\ HandType'
      <3>1. event[e].count + 1 \in 0..Most
        BY <2>4
      <3> QED
        BY <1>0, <2>5, <3>1 DEF Hold, EventType, HandType
    <2>7. /\ event'[e].status = "pending" /\ event'[e].count = event[e].count + 1
          /\ \A f \in Events : f # e => event'[f] = event[f]
          /\ hand'[h].pc \notin {"idle", "failed"} /\ hand'[h].event = e
          /\ \A g \in Consumers : g # h => hand'[g] = hand[g]
      BY <1>0, <2>5 DEF Hold, EventType, HandType
    <2>8. \A f \in Events : Healthy(f) => Healthy(f)'
      BY <2>1, <2>7 DEF Healthy
    <2>9. Healthy(e)'
      BY <2>7 DEF Healthy
    <2>10. \A f \in Events : event[f].count \in Nat
      BY <1>0 DEF EventType
    <2>11. Paid'
      <3> SUFFICES ASSUME NEW f \in Events
                   PROVE  /\ event'[f].count <= 1 + Used'
                          /\ event'[f].status = "pending" /\ ~Healthy(f)' => event'[f].count <= Used'
                          /\ event'[f].status \in {"absent", "fresh"} => event'[f].count = 0
        BY DEF Paid
      <3>1. CASE f = e
        BY <2>4, <2>7, <2>9, <3>1
      <3>2. CASE f # e
        BY <1>0, <1>1, <2>3, <2>7, <2>8, <2>10, <3>2 DEF Paid
      <3> QED
        BY <3>1, <3>2
    <2> QED
      BY <2>2, <2>6, <2>11
  <1>6. ASSUME NEW h \in Consumers, Handle(h) \/ Crash(h)
        PROVE  EventType' /\ HandType' /\ BoundType' /\ Paid'
    <2> DEFINE e == hand[h].event
    <2>0. e \in Events /\ hand[h].pc # "idle"
      BY <1>0, <1>6 DEF HandType, Handle, Assign, WipeAssets, WipeAvatar, Anonymize, Done, GiveUp, Crash
    <2>1. \/ /\ \E pc \in {"avatar", "audit", "done"} : Step(h, pc) /\ hand[h].pc # "failed"
             /\ (UNCHANGED envVars \/ Fault)
          \/ Ack(h) /\ UNCHANGED envVars
          \/ Leave(h) /\ hand[h].pc = "failed" /\ (UNCHANGED envVars \/ Fault)
          \/ Fail(h)
          \/ Leave(h) /\ UNCHANGED <<saves, slow, faults>> /\ crashes < MaxCrashes /\ crashes' = crashes + 1
      BY <1>6 DEF Handle, Assign, WipeAssets, WipeAvatar, Anonymize, Done, GiveUp, Crash
    <2>2. BoundType' /\ Used' \in Nat /\ Used' >= Used
      <3>1. /\ saves' = saves /\ slow' = slow
            /\ faults' = faults \/ (faults < MaxFaults /\ faults' = faults + 1)
            /\ crashes' = crashes \/ (crashes < MaxCrashes /\ crashes' = crashes + 1)
        BY <2>1 DEF Fail, Fault, envVars
      <3>2. BoundType'
        BY <1>0, <3>1, IdentityConstantsOK DEF BoundType, IdentityConstantsOK
      <3> QED
        BY <1>1, <3>1, <3>2 DEF Used
    <2>3. EventType' /\ HandType'
      <3>1. Free \in [pc : {"idle"}, event : Events, seen : 1..Most]
        BY <1>1, IdentityConstantsOK DEF Free, Events, Most, IdentityConstantsOK
      <3>2. CASE Ack(h)
        BY <1>0, <3>1, <3>2 DEF Ack, EventType, HandType
      <3>3. CASE Leave(h)
        BY <1>0, <3>1, <3>3 DEF Leave, EventType, HandType
      <3>4. CASE \E pc \in {"avatar", "audit", "done", "failed"} : Step(h, pc)
        BY <1>0, <3>4 DEF Step, EventType, HandType
      <3> QED
        BY <2>1, <3>2, <3>3, <3>4 DEF Fail
    <2>4. \A f \in Events : event[f].count \in Nat /\ event'[f].count = event[f].count
            /\ (event'[f].status = event[f].status \/ event'[f].status = "acked")
      BY <1>0, <2>1 DEF EventType, Step, Fail, Ack, Leave
    <2>5. \A g \in Consumers : g # h => hand'[g] = hand[g]
      BY <1>0, <2>1 DEF HandType, Step, Fail, Ack, Leave
    <2>6. ASSUME NEW f \in Events, event'[f].status = "pending", ~Healthy(f)'
          PROVE  event'[f].count <= Used'
      <3>1. event[f].status = "pending"
        BY <2>4, <2>6
      <3>2. CASE ~Healthy(f)
        BY <1>0, <1>1, <2>2, <2>4, <3>1, <3>2 DEF Paid
      <3>3. CASE Healthy(f)
        <4>1. f = e /\ hand[h].pc # "failed"
          BY <2>5, <2>6, <3>3 DEF Healthy
        <4>2. Used' = Used + 1
          <5>1. CASE Ack(h)
            <6>1. event'[f].status = "acked"
              BY <1>0, <2>0, <4>1, <5>1 DEF Ack, EventType
            <6> QED
              BY <2>6, <6>1
          <5>2. CASE \E pc \in {"avatar", "audit", "done"} : Step(h, pc)
            <6>1. hand'[h].pc \notin {"idle", "failed"} /\ hand'[h].event = e
              BY <1>0, <5>2 DEF Step, HandType
            <6> QED
              BY <2>6, <4>1, <6>1 DEF Healthy
          <5> QED
            BY <1>1, <2>1, <4>1, <5>1, <5>2 DEF Fail, Fault, Used
        <4> QED
          BY <1>0, <1>1, <2>4, <4>2 DEF Paid
      <3> QED
        BY <3>2, <3>3
    <2>7. Paid'
      BY <1>0, <1>1, <2>2, <2>4, <2>6 DEF Paid
    <2> QED
      BY <2>2, <2>3, <2>7
  <1>7. \A c \in Writers : Put(c) \/ Purge(c) \/ Log(c) => UNCHANGED <<event, hand>> /\ (UNCHANGED envVars \/ Fault)
    BY DEF Put, Purge, Log
  <1> QED
    BY <1>2, <1>3, <1>4, <1>5, <1>6, <1>7 DEF Next, Save, Fetch, Residue, vars, envVars, Fault

LEMMA AvatarsTypedNext == Typed /\ [Next]_vars => Typed'
  BY EventsTyped, RowsTyped, WritersTyped
     DEF Typed, TypeOK, EventType, HandType, CallType, AvatarType, FlagType, BoundType, Most

LEMMA AlwaysTyped == Spec => []Typed
  BY AvatarsTypedInit, AvatarsTypedNext, PTL DEF Spec

\* Events, consumers, calls and what is kept of the user keep their types; an
\* event is never delivered more often than errors, deaths and slow handlers
\* explain (event-consumer.ts deliveryCount).
THEOREM AvatarsTypeCorrect == Spec => []TypeOK
  <1>1. Typed => TypeOK
    BY DEF Typed
  <1> QED
    BY <1>1, AlwaysTyped, PTL

-----------------------------------------------------------------------------
(* The choice of the user.  While the script has the user on its list a     *)
(* preset that is stored counts as raced; when it puts them there none is   *)
(* stored.                                                                  *)

ChoiceInv == ChoiceKept /\ (call["script"].pc # "idle" /\ chosen => raced)

LEMMA ChoiceSteps ==
    ASSUME Typed, ChoiceInv, [Next]_vars
    PROVE  ChoiceInv'
  <1>0. CallType /\ AvatarType /\ FlagType /\ Meant
    BY TypesInGroups DEF Typed
  <1>1. "none" \notin Choices /\ "default" \notin Choices /\ "script" \notin Calls /\ Sub \in Names
    BY IdentityConstantsOK DEF IdentityConstantsOK, Names
  <1>2. "script" \in Writers /\ \A c \in Calls : c \in Writers
    BY DEF Writers
  <1>3. CASE UNCHANGED <<avatar, chosen, raced>> /\ (call'["script"].pc # "idle" => call["script"].pc # "idle")
    BY <1>3 DEF ChoiceInv, ChoiceKept
  <1>4. CASE \E h \in Consumers : Assign(h)
    <2>1. chosen => avatar[Sub] # "none"
      BY <1>1 DEF ChoiceInv, ChoiceKept
    <2>2. chosen => avatar'[Sub] = avatar[Sub]
      BY <1>0, <1>1, <1>4, <2>1 DEF Assign, AvatarType
    <2> QED
      BY <1>4, <2>2 DEF Assign, ChoiceInv, ChoiceKept
  <1>5. CASE \E h \in Consumers : WipeAvatar(h)
    <2>1. UNCHANGED <<call, raced>> /\ (UNCHANGED <<avatar, chosen>> \/ ~chosen')
      BY <1>5 DEF WipeAvatar
    <2> QED
      BY <2>1 DEF ChoiceInv, ChoiceKept
  <1>6. CASE Fetch
    <2>1. ~chosen /\ UNCHANGED rowVars
      BY <1>1, <1>6 DEF Fetch, ChoiceInv, ChoiceKept
    <2> QED
      BY <2>1 DEF ChoiceInv, ChoiceKept, rowVars
  <1>7. ASSUME NEW c \in Writers, Put(c)
        PROVE  ChoiceInv'
    <2>1. \A d \in Writers : d # c => call'[d] = call[d]
      BY <1>0, <1>7 DEF Put, Over, CallType
    <2>2. call[c].pc = "put" /\ call[c].name \in Names
      BY <1>0, <1>7 DEF Put, CallType
    <2>3. CASE avatar' = [avatar EXCEPT ![call[c].name] = call[c].choice] /\ c = "script"
      <3>1. UNCHANGED <<chosen, raced>>
        <4>1. /\ chosen' = (chosen \/ (c \in Calls /\ call[c].name = Sub))
              /\ raced' = (raced \/ (c \in Calls /\ call[c].name = Sub /\ call["script"].pc # "idle"))
           \/ UNCHANGED <<chosen, raced>>
          BY <1>7, Zenon DEF Put
        <4> QED
          BY <1>0, <1>1, <2>3, <4>1, Zenon DEF FlagType
      <3>2. chosen => raced
        BY <2>2, <2>3 DEF ChoiceInv
      <3>3. avatar'[Sub] = "planned" \/ avatar'[Sub] = avatar[Sub]
        BY <1>0, <1>1, <2>2, <2>3 DEF AvatarType, Meant
      <3> QED
        BY <3>1, <3>2, <3>3 DEF ChoiceInv, ChoiceKept
    <2>4. CASE /\ avatar' = [avatar EXCEPT ![call[c].name] = call[c].choice] /\ c # "script"
               /\ chosen' = (chosen \/ (c \in Calls /\ call[c].name = Sub))
               /\ raced' = (raced \/ (c \in Calls /\ call[c].name = Sub /\ call["script"].pc # "idle"))
      <3>1. call'["script"] = call["script"] /\ c \in Calls /\ call[c].choice \in Choices
        BY <1>0, <1>2, <2>1, <2>2, <2>4 DEF Writers, Meant
      <3>2. CASE call[c].name = Sub
        <4>1. avatar'[Sub] \in Choices
          BY <1>0, <1>1, <2>4, <3>1, <3>2 DEF AvatarType
        <4>2. call["script"].pc # "idle" => raced'
          BY <2>4, <3>1, <3>2
        <4> QED
          BY <3>1, <4>1, <4>2 DEF ChoiceInv, ChoiceKept
      <3>3. CASE call[c].name # Sub
        <4>1. avatar'[Sub] = avatar[Sub]
          BY <1>0, <1>1, <2>4, <3>3 DEF AvatarType
        <4>2. (chosen' <=> chosen) /\ (raced' <=> raced)
          BY <2>4, <3>3
        <4> QED
          BY <3>1, <4>1, <4>2 DEF ChoiceInv, ChoiceKept
      <3> QED
        BY <3>2, <3>3
    <2>5. CASE UNCHANGED <<avatar, chosen, raced>>
      <3>1. call'["script"].pc # "idle" => call["script"].pc # "idle"
        BY <1>2, <2>1, <2>2
      <3> QED
        BY <1>3, <2>5, <3>1
    <2> QED
      BY <1>7, <2>3, <2>4, <2>5 DEF Put
  <1>8. ASSUME NEW c \in Writers, Purge(c) \/ Log(c)
        PROVE  ChoiceInv'
    <2>1. /\ UNCHANGED <<avatar, chosen, raced>> /\ call[c].pc # "idle"
          /\ \A d \in Writers : d # c => call'[d] = call[d]
      BY <1>0, <1>8 DEF Purge, Log, Over, CallType
    <2> QED
      BY <1>2, <1>3, <2>1
  <1>9. CASE \E c \in Calls, v \in Choices : Save(c, v)
    <2>1. UNCHANGED <<avatar, chosen, raced>> /\ call'["script"] = call["script"]
      BY <1>0, <1>1, <1>2, <1>9 DEF Save, rowVars, CallType
    <2> QED
      BY <1>3, <2>1
  <1>10. CASE Residue
    BY <1>3, <1>10 DEF Residue
  <1> QED
    BY <1>3, <1>4, <1>5, <1>6, <1>7, <1>8, <1>9, <1>10 DEF Next, Emit, Handle, WipeAssets, Anonymize,
         Done, GiveUp, Crash, Deliver, Reclaim, rowVars, vars

\* Whatever is delivered late or twice and whenever the script runs, what the
\* user has chosen stays (identity-event.worker.ts lines 82-92).
THEOREM ChoicesAreKept == Spec => []ChoiceKept
  <1>1. Init => ChoiceInv
    BY DEF Init, ChoiceInv, ChoiceKept
  <1>2. Typed /\ ChoiceInv /\ [Next]_vars => ChoiceInv'
    BY ChoiceSteps
  <1>3. ChoiceInv => ChoiceKept
    BY DEF ChoiceInv
  <1> QED
    BY <1>1, <1>2, <1>3, AlwaysTyped, PTL DEF Spec

-----------------------------------------------------------------------------
(* The deletion of a user.  As long as it goes on quietly every consumer at *)
(* work handles the deletion, and what its handler has passed is gone.      *)

Gone(h) ==
    /\ hand[h].pc \in {"avatar", "audit", "done"} => ~legacy[Sub]
    /\ hand[h].pc \in {"audit", "done"} => avatar[Sub] = "none"
    /\ hand[h].pc = "done" => ~named

QuietInv ==
    quiet =>
        /\ event["registered"].status = "acked" /\ event["deleted"].status # "absent"
        /\ \A c \in Writers : call[c].pc = "idle"
        /\ \A h \in Consumers : hand[h].pc # "idle" =>
              /\ hand[h].event = "deleted" /\ hand[h].pc # "assign"
              /\ Gone(h)
        /\ NothingLeft

LEMMA EventNames == "registered" \in Events /\ "deleted" \in Events /\ Sub \in Names /\ "script" \in Writers
  BY DEF Events, Names, Writers

LEMMA QuietSteps ==
    ASSUME Typed, QuietInv, [Next]_vars
    PROVE  QuietInv'
  <1>0. EventType /\ HandType /\ CallType /\ AvatarType /\ FlagType
    BY TypesInGroups DEF Typed
  <1>1. CASE UNCHANGED <<event, hand, call, rowVars>>
    BY <1>1 DEF QuietInv, Gone, NothingLeft, rowVars
  <1>2. ASSUME NEW e \in Events, Emit(e)
        PROVE  QuietInv'
    <2>1. CASE ~quiet'
      BY <2>1 DEF QuietInv
    <2>2. CASE quiet'
      <3>1. e = "deleted" /\ Undisturbed
        BY <1>2, <2>2, Zenon DEF Emit
      <3>2. event'["deleted"].status = "fresh" /\ event'["registered"] = event["registered"] /\ UNCHANGED <<hand, call>>
        BY <1>0, <1>2, <3>1, EventNames DEF Emit, EventType
      <3> QED
        BY <3>1, <3>2 DEF Undisturbed, QuietInv, NothingLeft, Gone
    <2> QED
      BY <2>1, <2>2
  <1>3. ASSUME NEW h \in Consumers, NEW e \in Events, Deliver(h, e) \/ Reclaim(h, e), quiet
        PROVE  QuietInv'
    <2>1. e = "deleted"
      BY <1>3, EventNames DEF QuietInv, Deliver, Reclaim, Events
    <2>2. PICK n \in Nat : Hold(h, e, n)
      <3>1. event[e].count + 1 \in Nat /\ 1 \in Nat
        BY <1>0 DEF EventType
      <3> QED
        BY <1>3, <3>1 DEF Deliver, Reclaim, HoldCounted
    <2>3. /\ event'["deleted"].status = "pending" /\ event'["registered"] = event["registered"]
          /\ hand'[h].event = "deleted" /\ hand'[h].pc = "assets"
          /\ \A g \in Consumers : g # h => hand'[g] = hand[g]
      BY <1>0, <2>1, <2>2, EventNames DEF Hold, EventType, HandType
    <2>4. UNCHANGED <<call, rowVars>>
      BY <1>3 DEF Deliver, Reclaim
    <2> QED
      BY <1>3, <2>3, <2>4 DEF QuietInv, Gone, NothingLeft, rowVars
  <1>4. ASSUME NEW h \in Consumers, Handle(h) \/ Crash(h), quiet, quiet'
        PROVE  QuietInv'
    <2>1. hand[h].event = "deleted" /\ hand[h].pc \notin {"idle", "assign"} /\ Gone(h)
      <3>1. hand[h].pc # "idle"
        BY <1>4 DEF Handle, Assign, WipeAssets, WipeAvatar, Anonymize, Done, GiveUp, Crash
      <3> QED
        BY <1>4, <3>1 DEF QuietInv
    <2>2. UNCHANGED call /\ \A g \in Consumers : g # h => hand'[g] = hand[g]
      BY <1>0, <1>4 DEF Handle, Assign, WipeAssets, WipeAvatar, Anonymize, Done, GiveUp, Crash, Step,
           Fail, Ack, Leave, HandType
    <2>3. /\ legacy'[Sub] => legacy[Sub]
          /\ avatar'[Sub] # "none" => avatar[Sub] # "none"
          /\ named' => named
      <3>1. CASE WipeAssets(h)
        BY <1>0, <3>1, EventNames DEF WipeAssets, FlagType
      <3>2. CASE WipeAvatar(h)
        BY <1>0, <3>2, EventNames DEF WipeAvatar, AvatarType
      <3>3. CASE Anonymize(h)
        <4>1. UNCHANGED <<avatar, legacy>> /\ named' \in {FALSE, named}
          BY <3>3 DEF Anonymize
        <4>2. named' => named
          BY <4>1, Zenon
        <4> QED
          BY <4>1, <4>2
      <3>4. CASE GiveUp(h) \/ Done(h) \/ Crash(h)
        BY <3>4 DEF GiveUp, Done, Crash, rowVars
      <3>5. ~Assign(h)
        BY <2>1 DEF Assign
      <3> QED
        BY <1>4, <3>1, <3>2, <3>3, <3>4, <3>5 DEF Handle
    <2>4. \A g \in Consumers : g # h /\ hand'[g].pc # "idle" =>
            hand'[g].event = "deleted" /\ hand'[g].pc # "assign" /\ Gone(g)'
      BY <1>4, <2>2, <2>3 DEF QuietInv, Gone
    <2>5. CASE UNCHANGED event
      <3>1. NothingLeft'
        BY <1>4, <2>3, <2>5 DEF QuietInv, NothingLeft
      <3>2. hand'[h].pc # "idle" => hand'[h].event = "deleted" /\ hand'[h].pc # "assign" /\ Gone(h)'
        <4>1. CASE Leave(h)
          BY <1>0, <4>1 DEF Leave, Free, HandType
        <4>2. CASE Step(h, "failed")
          BY <1>0, <2>1, <4>2 DEF Step, Gone, HandType
        <4>3. CASE WipeAssets(h) /\ legacy' = [legacy EXCEPT ![Sub] = FALSE] /\ Step(h, "avatar")
          <5>1. hand'[h].pc = "avatar" /\ hand'[h].event = "deleted"
            BY <1>0, <2>1, <4>3 DEF Step, HandType
          <5>2. ~legacy'[Sub]
            BY <1>0, <4>3, EventNames DEF FlagType
          <5> QED
            BY <5>1, <5>2 DEF Gone
        <4>4. CASE WipeAvatar(h)
          <5>1. avatar' = [avatar EXCEPT ![Sub] = "none"] /\ Step(h, "audit") /\ UNCHANGED legacy /\ hand[h].pc = "avatar"
            BY <1>4, <4>4 DEF WipeAvatar
          <5>2. hand'[h].pc = "audit" /\ hand'[h].event = "deleted"
            BY <1>0, <2>1, <5>1 DEF Step, HandType
          <5>3. avatar'[Sub] = "none" /\ ~legacy'[Sub]
            BY <1>0, <2>1, <5>1, EventNames DEF AvatarType, Gone
          <5> QED
            BY <5>2, <5>3 DEF Gone
        <4>5. CASE Anonymize(h) /\ named' = FALSE /\ Step(h, "done")
          <5>1. UNCHANGED <<avatar, legacy>> /\ hand[h].pc = "audit"
            BY <4>5 DEF Anonymize
          <5>2. hand'[h].pc = "done" /\ hand'[h].event = "deleted"
            BY <1>0, <2>1, <4>5 DEF Step, HandType
          <5> QED
            BY <2>1, <4>5, <5>1, <5>2 DEF Gone
        <4>6. CASE Ack(h)
          BY <1>0, <4>6 DEF Ack, Free, HandType
        <4> QED
          BY <1>4, <2>1, <4>1, <4>2, <4>3, <4>4, <4>5, <4>6 DEF Handle, Assign, WipeAssets, Anonymize, Done,
               GiveUp, Crash, Fail
      <3> QED
        BY <1>4, <2>2, <2>4, <2>5, <3>1, <3>2 DEF QuietInv
    <2>6. CASE ~ UNCHANGED event
      <3>1. Ack(h)
        BY <1>4, <2>6 DEF Handle, Assign, WipeAssets, WipeAvatar, Anonymize, Done, GiveUp, Crash, Step,
             Fail, Leave
      <3>2. /\ event'["deleted"].status = "acked" /\ event'["registered"] = event["registered"]
            /\ hand'[h].pc = "idle"
        BY <1>0, <2>1, <3>1, EventNames DEF Ack, Free, EventType, HandType
      <3>3. hand[h].pc = "done" \/ UNCHANGED event
        <4>1. CASE GiveUp(h)
          <5>1. Leave(h)
            BY <1>4, <2>1, <4>1 DEF GiveUp
          <5> QED
            BY <5>1 DEF Leave
        <4>2. CASE Done(h)
          BY <4>2 DEF Done
        <4> QED
          BY <1>4, <4>1, <4>2 DEF Handle, Assign, WipeAssets, WipeAvatar, Anonymize, Crash, Step, Fail, Leave
      <3>4. ~legacy'[Sub] /\ avatar'[Sub] = "none" /\ ~named'
        BY <2>1, <2>3, <2>6, <3>3 DEF Gone
      <3>5. NothingLeft'
        BY <3>4 DEF NothingLeft
      <3> QED
        BY <1>4, <2>2, <2>4, <3>2, <3>5 DEF QuietInv
    <2> QED
      BY <2>5, <2>6
  <1>5. ASSUME NEW c \in Writers, Put(c) \/ Purge(c) \/ Log(c)
        PROVE  QuietInv'
    <2>1. call[c].pc # "idle" /\ UNCHANGED quiet
      BY <1>5 DEF Put, Purge, Log
    <2> QED
      BY <2>1 DEF QuietInv
  <1>6. CASE Fetch \/ \E c \in Calls, v \in Choices : Save(c, v)
    <2>1. UNCHANGED quiet /\ event["deleted"].status = "absent"
      BY <1>6 DEF Fetch, Save, rowVars
    <2> QED
      BY <2>1 DEF QuietInv
  <1>7. CASE Residue
    BY <1>7, EventNames DEF Residue, QuietInv
  <1>8. ASSUME NEW h \in Consumers, ~quiet, Handle(h) \/ Crash(h) \/ \E e \in Events : Deliver(h, e) \/ Reclaim(h, e)
        PROVE  QuietInv'
    <2>1. ~quiet'
      BY <1>8 DEF Handle, Assign, WipeAssets, WipeAvatar, Anonymize, Done, GiveUp, Crash, Deliver, Reclaim, rowVars
    <2> QED
      BY <2>1 DEF QuietInv
  <1>9. ASSUME ~quiet'
        PROVE  QuietInv'
    BY <1>9 DEF QuietInv
  <1> QED
    BY <1>1, <1>2, <1>3, <1>4, <1>5, <1>6, <1>7, <1>8, <1>9 DEF Next, vars

\* A deletion that was emitted with user.registered acknowledged and no
\* handler, call or script under way for the user, that is acknowledged because
\* it was handled and not because it was given up, and during which no failure
\* was swallowed, has left nothing under the user's sub; what is stored under
\* their other id is outside the statement (document.service.ts
\* anonymizeUserPII).
THEOREM NothingOfTheDeletedIsLeft == Spec => []NothingLeft
  <1>1. Init => QuietInv
    BY DEF Init, QuietInv
  <1>2. Typed /\ QuietInv /\ [Next]_vars => QuietInv'
    BY QuietSteps
  <1>3. QuietInv => NothingLeft
    BY DEF QuietInv, NothingLeft
  <1> QED
    BY <1>1, <1>2, <1>3, AlwaysTyped, PTL DEF Spec
-----------------------------------------------------------------------------
(* The acknowledgement of user.registered.  Each try that has failed is paid *)
(* for by its own error and by what caused the tries before it.              *)

Provided == avatar[Sub] # "none" \/ event["deleted"].status # "absent"

Charged ==
    \A h \in Consumers : LET e == hand[h].event IN
        hand[h].pc # "idle" =>
            /\ event[e].status \in {"pending", "acked"}
            /\ hand[h].seen <= event[e].count
            /\ hand[h].pc = "failed" => event[e].count <= Used

\* Each handler is in the steps of its own event.
Handlers ==
    \A h \in Consumers :
        /\ hand[h].pc = "assign" => hand[h].event = "registered"
        /\ hand[h].pc \in {"assets", "avatar", "audit"} => hand[h].event = "deleted"
        /\ hand[h].pc = "done" /\ hand[h].event = "registered" => Provided

AckedInv == Charged /\ Handlers /\ AckedIsAssigned

LEMMA SumGrows ==
    ASSUME NEW c \in Nat, NEW l \in Nat, NEW f \in Nat, NEW cc \in Nat, NEW ll \in Nat, NEW ff \in Nat,
           cc >= c, ll >= l, ff >= f
    PROVE  c + l + f \in Nat /\ cc + ll + ff \in Nat /\ cc + ll + ff >= c + l + f
  OBVIOUS

LEMMA UsedGrows ==
    ASSUME Typed, [Next]_vars
    PROVE  /\ Used \in Nat /\ Used' \in Nat /\ Used' >= Used
           /\ (\E h \in Consumers : Fail(h)) => Used' = Used + 1
  <1>1. BoundType /\ BoundType'
    BY EventsTyped, TypesInGroups DEF Typed
  <1>2. /\ slow \in Nat /\ faults \in Nat /\ crashes \in Nat
        /\ slow' \in Nat /\ faults' \in Nat /\ crashes' \in Nat
    BY <1>1, IdentityConstantsOK DEF BoundType, IdentityConstantsOK
  <1>3. slow' \in {slow, slow + 1} /\ faults' \in {faults, faults + 1} /\ crashes' \in {crashes, crashes + 1}
    <2>1. CASE UNCHANGED <<slow, faults, crashes>> \/ Fault
      BY <2>1 DEF Fault
    <2>2. CASE \E h \in Consumers, e \in Events : Deliver(h, e) \/ Reclaim(h, e)
      BY <2>2 DEF Deliver, Reclaim, HoldCounted
    <2>3. CASE \E h \in Consumers : Crash(h)
      BY <2>3 DEF Crash
    <2> QED
      BY <2>1, <2>2, <2>3 DEF Next, Emit, Handle, Assign, WipeAssets, WipeAvatar, Anonymize, Done,
           GiveUp, Fail, Save, Put, Purge, Log, Fetch, Residue, vars, envVars
  <1>4. (\E h \in Consumers : Fail(h)) => slow' = slow /\ crashes' = crashes /\ faults' = faults + 1
    BY DEF Fail, Fault
  <1>5. slow' >= slow /\ faults' >= faults /\ crashes' >= crashes
    BY <1>2, <1>3
  <1>6. Used \in Nat /\ Used' \in Nat /\ Used' >= Used
    BY <1>2, <1>5, SumGrows, Zenon DEF Used
  <1>7. ASSUME slow' = slow, crashes' = crashes, faults' = faults + 1
        PROVE  Used' = Used + 1
    BY <1>2, <1>7 DEF Used
  <1> QED
    BY <1>4, <1>6, <1>7

\* An avatar goes only with the user.
LEMMA ProvidedStays ==
    ASSUME Typed, Charged, Handlers, [Next]_vars, Provided
    PROVE  Provided'
  <1>0. EventType /\ HandType /\ CallType /\ AvatarType /\ Meant /\ EventType'
    BY EventsTyped, TypesInGroups DEF Typed
  <1>1. /\ Sub \in Names /\ "deleted" \in Events
        /\ "none" \notin Choices /\ "planned" # "none" /\ "default" # "none"
    BY EventNames, IdentityConstantsOK DEF IdentityConstantsOK
  <1>2. event["deleted"].status # "absent" => event'["deleted"].status # "absent"
    <2>1. CASE UNCHANGED event
      BY <2>1
    <2>2. CASE \E e \in Events : Emit(e)
      BY <1>0, <1>1, <2>2 DEF Emit, EventType
    <2>3. CASE \E h \in Consumers, e \in Events, n \in Nat : Hold(h, e, n)
      BY <1>0, <1>1, <2>3 DEF Hold, EventType
    <2>4. CASE \E h \in Consumers : Ack(h)
      BY <1>0, <1>1, <2>4 DEF Ack, EventType, HandType
    <2>5. \A h \in Consumers, e \in Events :
             Deliver(h, e) \/ Reclaim(h, e) => \E n \in Nat : Hold(h, e, n)
      <3>1. \A e \in Events : event[e].count + 1 \in Nat
        BY <1>0, UsedInBounds, TypesInGroups DEF EventType, Typed
      <3> QED
        BY <3>1 DEF Deliver, Reclaim, HoldCounted
    <2>6. \A h \in Consumers : Handle(h) \/ Crash(h) => UNCHANGED event \/ Ack(h)
      BY DEF Handle, Assign, WipeAssets, WipeAvatar, Anonymize, Done, GiveUp, Crash, Fail, Step, Leave
    <2> QED
      BY <2>1, <2>2, <2>3, <2>4, <2>5, <2>6 DEF Next, Save, Put, Purge, Log, Fetch, Residue, vars
  <1>3. avatar[Sub] # "none" => avatar'[Sub] # "none" \/ event'["deleted"].status # "absent"
    <2>1. CASE UNCHANGED avatar
      BY <2>1
    <2>2. CASE \E h \in Consumers : Assign(h)
      BY <1>0, <1>1, <2>2 DEF Assign, AvatarType
    <2>3. ASSUME NEW h \in Consumers, WipeAvatar(h)
          PROVE  event'["deleted"].status # "absent"
      <3>1. hand[h].pc = "avatar" /\ UNCHANGED event
        BY <2>3 DEF WipeAvatar, Step
      <3>2. hand[h].event = "deleted"
        BY <3>1 DEF Handlers
      <3> QED
        BY <3>1, <3>2 DEF Charged
    <2>4. ASSUME NEW c \in Writers, Put(c)
          PROVE  avatar[Sub] # "none" => avatar'[Sub] # "none"
      <3>1. call[c].pc = "put" /\ (UNCHANGED avatar \/ avatar' = [avatar EXCEPT ![call[c].name] = call[c].choice])
        BY <2>4 DEF Put
      <3>2. call[c].choice # "none"
        BY <1>1, <2>4, <3>1, <1>0 DEF Meant
      <3> QED
        BY <1>0, <1>1, <3>1, <3>2 DEF AvatarType
    <2> QED
      BY <2>1, <2>2, <2>3, <2>4 DEF Next, Emit, Handle, WipeAssets, Anonymize, Done, GiveUp, Crash, Deliver,
           Reclaim, Save, Purge, Log, Fetch, Residue, vars, rowVars
  <1> QED
    BY <1>2, <1>3 DEF Provided

LEMMA AckedSteps ==
    ASSUME Typed, AckedInv, [Next]_vars
    PROVE  AckedInv'
  <1>0. EventType /\ HandType /\ CallType /\ AvatarType /\ Paid /\ EventType' /\ HandType'
    BY EventsTyped, TypesInGroups DEF Typed
  <1>1. /\ Used \in Nat /\ Used' \in Nat /\ Used' >= Used /\ (Provided => Provided')
        /\ (\E h \in Consumers : Fail(h)) => Used' = Used + 1
    BY UsedGrows, ProvidedStays DEF AckedInv
  <1>2. /\ \A e \in Events : event[e].count \in Nat /\ event'[e].count \in Nat
        /\ \A h \in Consumers : hand[h].event \in Events /\ hand[h].seen \in Nat
        /\ "registered" \in Events /\ "deleted" \in Events /\ MaxRetries \in Nat
        /\ Sub \in Names
    BY <1>0, UsedInBounds, TypesInGroups, EventNames, IdentityConstantsOK
       DEF EventType, HandType, Typed, IdentityConstantsOK
  <1>3. AckedIsAssigned <=> (event["registered"].status = "acked" => Provided \/ Used >= MaxRetries)
    BY DEF AckedIsAssigned, Provided
  <1>4. AckedIsAssigned' <=> (event'["registered"].status = "acked" => Provided' \/ Used' >= MaxRetries)
    BY DEF AckedIsAssigned, Provided
  <1>5. CASE UNCHANGED <<event, hand>>
    <2>1. Charged'
      BY <1>1, <1>2, <1>5 DEF AckedInv, Charged
    <2>2. Handlers'
      BY <1>1, <1>5 DEF AckedInv, Handlers
    <2> QED
      BY <1>1, <1>2, <1>3, <1>4, <1>5, <2>1, <2>2 DEF AckedInv
  <1>6. ASSUME NEW e \in Events, Emit(e)
        PROVE  AckedInv'
    <2>1. /\ UNCHANGED hand /\ event[e].status = "absent" /\ event'[e].status = "fresh"
          /\ \A f \in Events : f # e => event'[f] = event[f]
      BY <1>0, <1>6 DEF Emit, EventType
    <2>2. \A h \in Consumers : hand[h].pc # "idle" => hand[h].event # e
      BY <2>1 DEF AckedInv, Charged
    <2>3. Charged'
      BY <1>1, <1>2, <2>1, <2>2 DEF AckedInv, Charged
    <2>4. Handlers'
      BY <1>1, <2>1 DEF AckedInv, Handlers
    <2> QED
      BY <1>1, <1>2, <1>3, <1>4, <2>1, <2>3, <2>4 DEF AckedInv
  <1>7. ASSUME NEW h \in Consumers, NEW e \in Events, Deliver(h, e) \/ Reclaim(h, e)
        PROVE  AckedInv'
    <2>1. PICK n \in 1..(event[e].count + 1) : Hold(h, e, n)
      BY <1>2, <1>7 DEF Deliver, Reclaim, HoldCounted
    <2>2. /\ event'[e].status = "pending" /\ event'[e].count = event[e].count + 1
          /\ \A f \in Events : f # e => event'[f] = event[f]
          /\ hand'[h] = [pc |-> IF e = "registered" THEN "assign" ELSE "assets", event |-> e, seen |-> n]
          /\ \A g \in Consumers : g # h => hand'[g] = hand[g]
      BY <1>0, <2>1 DEF Hold, EventType, HandType
    <2>3. ASSUME NEW g \in Consumers, g # h, hand[g].pc = "failed", hand[g].event = e
          PROVE  event[e].count + 1 <= Used'
      <3>1. Held(e) /\ event[e].status \in {"pending", "acked"} /\ event[e].count <= Used
        BY <2>3 DEF Held, AckedInv, Charged
      <3>2. slow' = slow + 1 /\ crashes' = crashes /\ (faults' = faults \/ faults' = faults + 1)
        BY <1>7, <3>1 DEF Deliver, Reclaim, HoldCounted
      <3>3. slow \in Nat /\ crashes \in Nat /\ faults \in Nat
        BY UsedInBounds, TypesInGroups DEF Typed
      <3>4. Used' >= Used + 1
        BY <3>2, <3>3 DEF Used
      <3> QED
        BY <1>1, <1>2, <3>1, <3>4
    <2>4. Charged'
      <3> SUFFICES ASSUME NEW g \in Consumers, hand'[g].pc # "idle"
                   PROVE  /\ event'[hand'[g].event].status \in {"pending", "acked"}
                          /\ hand'[g].seen <= event'[hand'[g].event].count
                          /\ hand'[g].pc = "failed" => event'[hand'[g].event].count <= Used'
        BY DEF Charged
      <3>1. CASE g = h
        BY <1>2, <2>2, <3>1
      <3>2. CASE g # h
        <4>1. /\ hand'[g] = hand[g] /\ event[hand[g].event].status \in {"pending", "acked"}
              /\ hand[g].seen <= event[hand[g].event].count
              /\ hand[g].pc = "failed" => event[hand[g].event].count <= Used
          BY <2>2, <3>2 DEF AckedInv, Charged
        <4>2. CASE hand[g].event = e
          BY <1>2, <2>2, <2>3, <3>2, <4>1, <4>2
        <4>3. CASE hand[g].event # e
          BY <1>1, <1>2, <2>2, <4>1, <4>3
        <4> QED
          BY <4>2, <4>3
      <3> QED
        BY <3>1, <3>2
    <2>5. Handlers'
      <3>1. e \in {"registered", "deleted"}
        BY DEF Events
      <3> QED
        BY <1>1, <2>2, <3>1 DEF AckedInv, Handlers
    <2> QED
      BY <1>1, <1>2, <1>3, <1>4, <2>2, <2>4, <2>5 DEF AckedInv
  <1>8. ASSUME NEW h \in Consumers, Handle(h) \/ Crash(h)
        PROVE  AckedInv'
    <2> DEFINE e == hand[h].event
    <2>1. /\ e \in Events /\ hand[h].pc # "idle" /\ event[e].status \in {"pending", "acked"}
          /\ hand[h].seen <= event[e].count /\ (hand[h].pc = "failed" => event[e].count <= Used)
      BY <1>2, <1>8 DEF Handle, Assign, WipeAssets, WipeAvatar, Anonymize, Done, GiveUp, Crash, AckedInv,
                        Charged
    <2>2. \/ \E pc \in {"avatar", "audit"} : Step(h, pc) /\ e = "deleted"
          \/ Step(h, "done") /\ (e = "deleted" \/ Provided')
          \/ Ack(h) /\ hand[h].pc = "done"
          \/ Ack(h) /\ hand[h].pc = "failed" /\ hand[h].seen >= MaxRetries
          \/ Leave(h)
          \/ Fail(h)
      <3>1. CASE Assign(h)
        <4>1. Fail(h) \/ (Step(h, "done") /\ avatar'[Sub] # "none")
          BY <1>0, <1>2, <3>1 DEF Assign, AvatarType
        <4> QED
          BY <4>1 DEF Provided
      <3>2. CASE WipeAssets(h) \/ WipeAvatar(h) \/ Anonymize(h)
        <4>1. e = "deleted"
          BY <3>2 DEF AckedInv, Handlers, WipeAssets, WipeAvatar, Anonymize
        <4> QED
          BY <3>2, <4>1 DEF WipeAssets, WipeAvatar, Anonymize
      <3>3. CASE Done(h) \/ GiveUp(h) \/ Crash(h)
        BY <3>3 DEF Done, GiveUp, Crash
      <3> QED
        BY <1>8, <3>1, <3>2, <3>3 DEF Handle
    <2>3. /\ \A g \in Consumers : g # h => hand'[g] = hand[g]
          /\ \A f \in Events : /\ event'[f].count = event[f].count
                               /\ \/ event'[f].status = event[f].status
                                  \/ f = e /\ event'[f].status = "acked" /\ Ack(h)
      BY <1>0, <2>2 DEF Step, Fail, Ack, Leave, EventType, HandType
    <2>4. \/ hand'[h].pc = "idle"
          \/ /\ hand'[h].event = e /\ hand'[h].seen = hand[h].seen /\ UNCHANGED event
             /\ \/ hand'[h].pc \in {"avatar", "audit"} /\ e = "deleted"
                \/ hand'[h].pc = "done" /\ (e = "deleted" \/ Provided')
                \/ hand'[h].pc = "failed" /\ Fail(h)
      BY <1>0, <2>2 DEF Step, Fail, Ack, Leave, HandType, Free
    <2>5. Charged'
      <3> SUFFICES ASSUME NEW g \in Consumers, hand'[g].pc # "idle"
                   PROVE  /\ event'[hand'[g].event].status \in {"pending", "acked"}
                          /\ hand'[g].seen <= event'[hand'[g].event].count
                          /\ hand'[g].pc = "failed" => event'[hand'[g].event].count <= Used'
        BY DEF Charged
      <3>1. CASE g = h
        <4>1. event[e].count <= 1 + Used
          BY <1>0, <2>1 DEF Paid
        <4>2. hand'[h].pc = "failed" => Used' = Used + 1
          BY <1>1, <2>4
        <4> QED
          BY <1>1, <1>2, <2>1, <2>4, <3>1, <4>1, <4>2
      <3>2. CASE g # h
        <4>1. /\ hand'[g] = hand[g] /\ event[hand[g].event].status \in {"pending", "acked"}
              /\ hand[g].seen <= event[hand[g].event].count
              /\ hand[g].pc = "failed" => event[hand[g].event].count <= Used
          BY <2>3, <3>2 DEF AckedInv, Charged
        <4> QED
          BY <1>1, <1>2, <2>3, <4>1
      <3> QED
        BY <3>1, <3>2
    <2>6. Handlers'
      BY <1>1, <2>3, <2>4 DEF AckedInv, Handlers
    <2>7. ASSUME event'["registered"].status = "acked"
          PROVE  Provided' \/ Used' >= MaxRetries
      <3>1. CASE event["registered"].status = "acked"
        BY <1>1, <1>2, <1>3, <3>1 DEF AckedInv
      <3>2. CASE event["registered"].status # "acked"
        <4>1. e = "registered" /\ Ack(h)
          BY <1>2, <2>3, <2>7, <3>2
        <4>2. hand[h].pc = "done" \/ (hand[h].pc = "failed" /\ hand[h].seen >= MaxRetries)
          <5>1. hand'[h].pc = "idle" /\ event' # event
            BY <1>0, <2>7, <3>2, <4>1 DEF Ack, HandType, Free
          <5> QED
            BY <2>2, <5>1 DEF Step, Leave, Fail
        <4>3. CASE hand[h].pc = "done"
          BY <1>1, <4>1, <4>3 DEF AckedInv, Handlers
        <4>4. CASE hand[h].pc = "failed" /\ hand[h].seen >= MaxRetries
          BY <1>1, <1>2, <2>1, <4>4
        <4> QED
          BY <4>2, <4>3, <4>4
      <3> QED
        BY <3>1, <3>2
    <2> QED
      BY <1>4, <2>5, <2>6, <2>7 DEF AckedInv
  <1> QED
    BY <1>5, <1>6, <1>7, <1>8 DEF Next, Save, Put, Purge, Log, Fetch, Residue, vars

\* user.registered is acknowledged without an avatar only when at least as many
\* things went wrong as the consumer grants tries, with any number of replicas
\* that take the event from each other (identity-event.worker.ts,
\* event-consumer.ts processMessages).
THEOREM RegistrationsAreHandled == Spec => []AckedIsAssigned
  <1>1. Init => AckedInv
    BY EventNames DEF Init, AckedInv, Charged, Handlers, AckedIsAssigned, Free
  <1>2. Typed /\ AckedInv /\ [Next]_vars => AckedInv'
    BY AckedSteps
  <1>3. AckedInv => AckedIsAssigned
    BY DEF AckedInv
  <1> QED
    BY <1>1, <1>2, <1>3, AlwaysTyped, PTL DEF Spec
=============================================================================

-------------------------- MODULE ServerProcessProofs --------------------------
(***************************************************************************)
(* Proofs about ServerProcess, for any number of requests, buckets and     *)
(* PARs, and for all windows, limits, pages and lives.                     *)
(***************************************************************************)
EXTENDS ServerProcess, FiniteSetTheorems, WellFoundedInduction, TLAPS

-----------------------------------------------------------------------------
(* Type correctness, one group of variables at a time.                      *)

Rec ==
    [pc : Steps \cup {"idle", "answered", "refused"}, kind : Kinds \cup {"none"},
     bucket : Buckets, start : Time, forced : BOOLEAN, seen : Time, page : Pars \cup {0},
     todo : SUBSET Pars, deleted : 0..PruneMax, until : Nat, due : SUBSET Pars, missed : BOOLEAN]

ClockType == now \in Time /\ lastCleanup \in Time /\ faults \in 0..MaxFaults
WorkType  == kinds \in Workloads /\ archive \in Archives
LimitType ==
    attempts \in [Buckets -> [count : Nat, resetAt : Nat]] /\ passed \in [Buckets -> Seq(Time)]
StatsType == stats \in [seen : Time, until : Nat]
ParsType  == pars \in [Pars -> [state : {"new", "there", "gone"}, until : Nat]]
ReqType   == req \in [Requests -> Rec]
EndType   == process \in {"up", "closing", "closed", "exited"} /\ signals \in 0..2

\* A prune that goes on is below its limit and has something to do, one that
\* has not begun has done nothing.
Fit ==
    {q \in Rec : /\ q.pc \in {"list", "delete"} => q.deleted < PruneMax
                 /\ q.pc = "delete" => q.todo # {}
                 /\ q.pc = "prune" => q.deleted = 0 /\ q.page = 0}

Typed == TypeOK /\ req \in [Requests -> Fit]

LEMMA TypesInGroups ==
    TypeOK <=> ClockType /\ WorkType /\ LimitType /\ StatsType /\ ParsType /\ ReqType /\ EndType
  BY DEF TypeOK, ClockType, WorkType, LimitType, StatsType, ParsType, ReqType, EndType, Rec

LEMMA PrimedTypes ==
    TypeOK' <=> ClockType' /\ WorkType' /\ LimitType' /\ StatsType' /\ ParsType' /\ ReqType' /\ EndType'
  BY DEF TypeOK, ClockType, WorkType, LimitType, StatsType, ParsType, ReqType, EndType, Rec

LEMMA Numbers ==
    /\ MaxAttempts \in Nat \ {0} /\ Window \in Nat \ {0} /\ CacheTtl \in Nat \ {0}
    /\ PageSize \in Nat \ {0}
    /\ PruneMax \in Nat /\ ParTtl \in Nat /\ Grace \in Nat /\ MaxTime \in Nat /\ MaxFaults \in Nat
    /\ CleanupInterval \in Nat
    /\ Pars \subseteq Nat \ {0} /\ 0 \in Time /\ Time \subseteq Nat
  BY ServerConstantsOK DEF ServerConstantsOK, Time

LEMMA AnyBucket == (CHOOSE b \in Buckets : TRUE) \in Buckets
  BY ServerConstantsOK DEF ServerConstantsOK

LEMMA NoRequestTyped ==
    /\ NoRequest \in Rec /\ NoRequest \in Fit /\ NoRequest.bucket \in Buckets
    /\ NoRequest.pc = "idle" /\ NoRequest.kind = "none" /\ NoRequest.start = 0
    /\ NoRequest.page = 0 /\ NoRequest.deleted = 0 /\ NoRequest.todo = {} /\ NoRequest.due = {}
  BY AnyBucket, Numbers DEF NoRequest, Rec, Fit

LEMMA ServerTypedInit == Init => Typed
  <1> SUFFICES ASSUME Init
               PROVE  Typed
    OBVIOUS
  <1>1. ClockType /\ EndType /\ StatsType
    BY Numbers DEF Init, ClockType, EndType, StatsType
  <1>2. WorkType
    BY ServerConstantsOK DEF Init, WorkType, ServerConstantsOK
  <1>3. LimitType
    BY DEF Init, LimitType, NoRecord
  <1>4. ParsType
    BY DEF Init, ParsType
  <1>5. ReqType /\ req \in [Requests -> Fit]
    BY NoRequestTyped DEF Init, ReqType
  <1> QED
    BY <1>1, <1>2, <1>3, <1>4, <1>5, TypesInGroups DEF Typed

\* What becomes of a request.
LEMMA StartedTyped ==
    ASSUME NEW kind \in Kinds, NEW b \in Buckets, now \in Time
    PROVE  /\ Started(kind, b) \in Fit
           /\ [Started(kind, b) EXCEPT !.pc = "refused", !.start = now] \in Fit
  BY NoRequestTyped DEF Started, Rec, Steps, Fit

LEMMA ResumedTyped ==
    ASSUME NEW q \in Rec, NEW todo \in SUBSET Pars, NEW deleted \in 0..PruneMax,
           NEW page \in Pars \cup {0}, now \in Time
    PROVE  Resumed(q, todo, deleted, page) \in Fit
  <1>1. now + ParTtl \in Nat
    BY Numbers
  <1> QED
    BY <1>1 DEF Resumed, Rec, Steps, Fit

LEMMA OneRequest ==
    ASSUME req \in [Requests -> Fit], NEW r \in Requests, NEW q \in Fit,
           req' = [req EXCEPT ![r] = q]
    PROVE  ReqType' /\ req' \in [Requests -> Fit]
  BY DEF ReqType, Fit

\* A request that begins.
ArrivalStep(r) ==
    \/ (\E kind \in kinds, b \in Buckets : Limited(r, kind, b))
    \/ Access(r) \/ (\E force \in BOOLEAN : Ask(r, force)) \/ Confirm(r)

LEMMA ArrivalTyped ==
    ASSUME Typed, NEW r \in Requests, ArrivalStep(r)
    PROVE  ReqType' /\ req' \in [Requests -> Fit]
  <1>1. ReqType /\ now \in Time /\ StatsType /\ req \in [Requests -> Fit]
    BY TypesInGroups DEF Typed, ClockType
  <1>2. ASSUME NEW kind \in kinds, NEW b \in Buckets, Limited(r, kind, b)
        PROVE  ReqType' /\ req' \in [Requests -> Fit]
    <2>1. kind \in Kinds
      BY <1>2 DEF Limited, Kinds
    <2> QED
      BY <1>1, <1>2, <2>1, StartedTyped, OneRequest DEF Limited
  <1>3. ASSUME Access(r)
        PROVE  ReqType' /\ req' \in [Requests -> Fit]
    BY <1>1, <1>3, StartedTyped, NoRequestTyped, OneRequest DEF Access, Kinds
  <1>4. ASSUME NEW force \in BOOLEAN, Ask(r, force)
        PROVE  ReqType' /\ req' \in [Requests -> Fit]
    <2> DEFINE q == [NoRequest EXCEPT !.kind = "stats", !.start = now, !.forced = force]
    <2>1. /\ [q EXCEPT !.pc = "answered", !.seen = stats.seen] \in Fit
          /\ [q EXCEPT !.pc = "reading"] \in Fit
      BY <1>1, NoRequestTyped DEF Rec, Steps, Kinds, StatsType, Fit
    <2> QED
      BY <1>1, <1>4, <2>1, OneRequest DEF Ask
  <1>5. ASSUME Confirm(r)
        PROVE  ReqType' /\ req' \in [Requests -> Fit]
    <2>1. /\ [NoRequest EXCEPT !.kind = "confirm", !.pc = "answered"] \in Fit
          /\ [NoRequest EXCEPT !.kind = "confirm", !.pc = "refused"] \in Fit
      BY NoRequestTyped DEF Rec, Steps, Kinds, Fit
    <2> QED
      BY <1>1, <1>5, <2>1, OneRequest DEF Confirm
  <1> QED
    BY <1>2, <1>3, <1>4, <1>5 DEF ArrivalStep

\* A request that goes on.
WorkStep(r) ==
    \/ Work(r) \/ Prune(r) \/ ListPage(r) \/ ListFails(r) \/ Delete(r) \/ Create(r)
    \/ Read(r) \/ Keep(r)

LEMMA WorkTyped ==
    ASSUME Typed, NEW r \in Requests, WorkStep(r)
    PROVE  ReqType' /\ req' \in [Requests -> Fit]
  <1>1. ReqType /\ now \in Time /\ req[r] \in Rec /\ req[r] \in Fit /\ req \in [Requests -> Fit]
    BY TypesInGroups DEF Typed, ClockType, ReqType
  <1>2. CASE Work(r) \/ Create(r)
    BY <1>1, <1>2, NoRequestTyped, OneRequest DEF Work, Create
  <1>3. CASE Prune(r)
    <2> DEFINE q == [req[r] EXCEPT !.start = now, !.due = {p \in There : Expired(p, now)}]
    <2>1. q \in Rec /\ q.deleted = req[r].deleted
      BY <1>1 DEF Rec, There
    <2>3. [q EXCEPT !.pc = "list"] \in Rec
      BY <2>1 DEF Rec, Steps
    <2>4. PruneMax # 0 => 0 < PruneMax
      BY Numbers
    <2>5. PruneMax # 0 => [q EXCEPT !.pc = "list"] \in Fit
      BY <1>1, <1>3, <2>1, <2>3, <2>4 DEF Fit, Prune, Rec
    <2>2. Resumed(q, {}, 0, 0) \in Fit
      BY <1>1, <2>1, ResumedTyped, Numbers
    <2> QED
      BY <1>1, <1>3, <2>2, <2>5, OneRequest DEF Prune
  <1>4. CASE ListPage(r)
    <2>1. PICK page \in SUBSET Left(req[r].page), more \in Pars \cup {0} :
              req' = [req EXCEPT ![r] = Resumed(req[r], Due(page, req[r].start), req[r].deleted, more)]
      BY <1>4 DEF ListPage
    <2>2. Due(page, req[r].start) \in SUBSET Pars /\ req[r].deleted \in 0..PruneMax
      BY <1>1 DEF Due, Left, There, Rec
    <2> QED
      BY <1>1, <2>1, <2>2, ResumedTyped, OneRequest
  <1>5. CASE ListFails(r)
    <2>1. [req[r] EXCEPT !.missed = TRUE] \in Rec /\ req[r].deleted \in 0..PruneMax
      BY <1>1 DEF Rec
    <2>2. Resumed([req[r] EXCEPT !.missed = TRUE], {}, req[r].deleted, 0) \in Fit
      BY <1>1, <2>1, ResumedTyped
    <2> QED
      BY <1>1, <1>5, <2>2, OneRequest DEF ListFails
  <1>6. CASE Delete(r)
    <2> DEFINE p == Min(req[r].todo)
               left == req[r].todo \ {p}
    <2>1. /\ [req[r] EXCEPT !.missed = TRUE] \in Rec /\ req[r].deleted \in 0..PruneMax
          /\ left \in SUBSET Pars /\ req[r].page \in Pars \cup {0}
      BY <1>1 DEF Rec
    <2>2. req[r].deleted < PruneMax
      BY <1>1, <1>6 DEF Delete, Fit
    <2>3. req[r].deleted + 1 \in 0..PruneMax
      BY <2>1, <2>2, Numbers
    <2>4. /\ Resumed(req[r], left, req[r].deleted + 1, req[r].page) \in Fit
          /\ Resumed(req[r], left, req[r].deleted, req[r].page) \in Fit
          /\ Resumed([req[r] EXCEPT !.missed = TRUE], left, req[r].deleted, req[r].page) \in Fit
      BY <1>1, <2>1, <2>3, ResumedTyped
    <2> QED
      BY <1>1, <1>6, <2>4, OneRequest DEF Delete
  <1>7. CASE Read(r)
    <2>1. [req[r] EXCEPT !.pc = "read", !.seen = now] \in Fit
      BY <1>1 DEF Rec, Steps, Fit
    <2>2. req' = [req EXCEPT ![r] = [req[r] EXCEPT !.pc = "read", !.seen = now]]
      BY <1>1, <1>7 DEF Read, ReqType, Rec
    <2> QED
      BY <1>1, <2>1, <2>2, OneRequest
  <1>8. CASE Keep(r)
    <2>1. [req[r] EXCEPT !.pc = "answered"] \in Fit
      BY <1>1 DEF Rec, Steps, Fit
    <2>2. req' = [req EXCEPT ![r] = [req[r] EXCEPT !.pc = "answered"]]
      BY <1>1, <1>8 DEF Keep, ReqType, Rec
    <2> QED
      BY <1>1, <2>1, <2>2, OneRequest
  <1> QED
    BY <1>2, <1>3, <1>4, <1>5, <1>6, <1>7, <1>8 DEF WorkStep

LEMMA ServerTypedNext == Typed /\ [Next]_vars => Typed'
  <1> SUFFICES ASSUME Typed, [Next]_vars
               PROVE  Typed'
    OBVIOUS
  <1>1. /\ ClockType /\ WorkType /\ LimitType /\ StatsType /\ ParsType /\ ReqType /\ EndType
        /\ req \in [Requests -> Fit]
    BY TypesInGroups DEF Typed
  <1>2. ASSUME NEW r \in Requests, ArrivalStep(r)
        PROVE  Typed'
    <2>1. ReqType' /\ req' \in [Requests -> Fit]
      BY <1>2, ArrivalTyped
    <2>2. WorkType' /\ StatsType' /\ ParsType' /\ EndType'
      BY <1>1, <1>2 DEF ArrivalStep, Limited, Access, Ask, Confirm, WorkType, StatsType, ParsType,
                        EndType, workload, ending, Arrives
    <2>3. ClockType' /\ LimitType'
      <3>1. CASE Access(r) \/ (\E force \in BOOLEAN : Ask(r, force)) \/ Confirm(r)
        BY <1>1, <3>1 DEF Access, Ask, Confirm, ClockType, LimitType, limiter
      <3>2. ASSUME NEW kind \in kinds, NEW b \in Buckets, Limited(r, kind, b)
            PROVE  ClockType' /\ LimitType'
        <4>1. ClockType'
          BY <1>1, <3>2 DEF Limited, ClockType
        <4>2. Swept \in [Buckets -> [count : Nat, resetAt : Nat]]
          BY <1>1 DEF LimitType, Swept, NoRecord
        <4>3. now \in Time /\ now + Window \in Nat /\ Swept[b].count + 1 \in Nat
          BY <1>1, <4>2, Numbers DEF ClockType
        <4>4. attempts' \in [Buckets -> [count : Nat, resetAt : Nat]]
          <5>1. \/ attempts' = Swept
                \/ attempts' = [Swept EXCEPT ![b] = [Swept[b] EXCEPT !.count = Swept[b].count + 1]]
                \/ attempts' = [Swept EXCEPT ![b] = [count |-> 1, resetAt |-> now + Window]]
            BY <3>2 DEF Limited
          <5>2. /\ [Swept[b] EXCEPT !.count = Swept[b].count + 1] \in [count : Nat, resetAt : Nat]
                /\ [count |-> 1, resetAt |-> now + Window] \in [count : Nat, resetAt : Nat]
            BY <4>2, <4>3
          <5> QED
            BY <4>2, <5>1, <5>2
        <4>5. passed' \in [Buckets -> Seq(Time)]
          <5>1. passed' = passed \/ passed' = [passed EXCEPT ![b] = Append(passed[b], now)]
            BY <3>2, Zenon DEF Limited
          <5>2. Append(passed[b], now) \in Seq(Time)
            BY <1>1, <4>3 DEF LimitType
          <5> QED
            BY <1>1, <5>1, <5>2 DEF LimitType
        <4> QED
          BY <4>1, <4>4, <4>5 DEF LimitType
      <3> QED
        BY <1>2, <3>1, <3>2 DEF ArrivalStep
    <2> QED
      BY <2>1, <2>2, <2>3, PrimedTypes DEF Typed
  <1>3. ASSUME NEW r \in Requests, WorkStep(r)
        PROVE  Typed'
    <2>1. ReqType' /\ req' \in [Requests -> Fit]
      BY <1>3, WorkTyped
    <2>2. WorkType' /\ LimitType' /\ EndType'
      BY <1>1, <1>3 DEF WorkStep, Work, Prune, ListPage, ListFails, Delete, Create, Read, Keep,
                        WorkType, LimitType, EndType, workload, ending, limiter
    <2>3. ClockType'
      BY <1>1, <1>3, Numbers DEF WorkStep, Work, Prune, ListPage, ListFails, Delete, Create, Read,
                                 Keep, Fail, ClockType, limiter
    <2>4. StatsType'
      <3>1. CASE Keep(r)
        BY <1>1, <3>1, Numbers DEF Keep, StatsType, ReqType, Rec
      <3> QED
        BY <1>1, <1>3, <3>1 DEF WorkStep, Work, Prune, ListPage, ListFails, Delete, Create, Read,
                                StatsType
    <2>5. ParsType'
      <3>1. req[r].until \in Nat
        BY <1>1 DEF ReqType, Rec
      <3>2. CASE Delete(r)
        BY <1>1, <3>2 DEF Delete, ParsType
      <3>3. CASE Create(r)
        BY <1>1, <3>1, <3>3 DEF Create, ParsType
      <3> QED
        BY <1>1, <1>3, <3>2, <3>3 DEF WorkStep, Work, Prune, ListPage, ListFails, Read, Keep, ParsType
    <2> QED
      BY <2>1, <2>2, <2>3, <2>4, <2>5, PrimedTypes DEF Typed
  <1>4. CASE Tick \/ Signal \/ Close \/ Exit \/ UNCHANGED vars
    <2>1. ClockType'
      BY <1>1, <1>4, Numbers DEF Tick, Signal, Close, Exit, ClockType, limiter, vars, Time
    <2>2. EndType'
      BY <1>1, <1>4 DEF Tick, Signal, Close, Exit, EndType, ending, vars
    <2>3. WorkType' /\ LimitType' /\ StatsType' /\ ParsType' /\ ReqType' /\ req' = req
      BY <1>1, <1>4 DEF Tick, Signal, Close, Exit, WorkType, LimitType, StatsType, ParsType, ReqType,
                        workload, limiter, vars
    <2> QED
      BY <1>1, <2>1, <2>2, <2>3, PrimedTypes DEF Typed
  <1> QED
    BY <1>2, <1>3, <1>4 DEF Next, Proceed, ArrivalStep, WorkStep

LEMMA AlwaysTyped == Spec => []Typed
  BY ServerTypedInit, ServerTypedNext, PTL DEF Spec

\* Every variable has its type, and no prune deletes more than it may
\* (oci-par-prune.ts).
THEOREM ServerTypeCorrect == Spec => []TypeOK
  <1>1. Typed => TypeOK
    BY DEF Typed
  <1> QED
    BY <1>1, AlwaysTyped, PTL

-----------------------------------------------------------------------------
(* The rate limit.  Of the times at which a bucket's requests were let      *)
(* through, the last window is open from the f-th on: as many as its record *)
(* counts, and a window's length after all but MaxAttempts - 1 of those     *)
(* before.                                                                  *)

Records == [count : Nat, resetAt : Nat]

Sorted(times, t) ==
    /\ \A i, j \in 1..Len(times) : i <= j => times[i] <= times[j]
    /\ \A i \in 1..Len(times) : times[i] <= t

Apart(times) ==
    \A i, j \in 1..Len(times) : j = i + 2 * MaxAttempts - 1 => times[i] + Window <= times[j]

Opened(times, rec, t, f) ==
    /\ f \in 1..Len(times) /\ Len(times) < f + MaxAttempts
    /\ rec.resetAt # 0 => rec.resetAt = times[f] + Window /\ f + rec.count = Len(times) + 1
    /\ rec.resetAt = 0 => times[f] + Window <= t
    /\ \A i \in 1..Len(times) : i + MaxAttempts <= f => times[i] + Window <= times[f]

Windows(times, rec, t) ==
    /\ Sorted(times, t) /\ Apart(times)
    /\ times = <<>> => rec.resetAt = 0
    /\ times # <<>> => \E f \in 1..Len(times) : Opened(times, rec, t, f)

\* MaxAttempts requests within a window that ends at t.
UsedUp(times, t) ==
    \E i \in DOMAIN times :
        /\ i + MaxAttempts - 1 \in DOMAIN times
        /\ times[i] > t - Window /\ times[i + MaxAttempts - 1] <= t

LEMMA TimesAreNumbers ==
    ASSUME NEW times \in Seq(Time)
    PROVE  /\ Len(times) \in Nat /\ DOMAIN times = 1..Len(times)
           /\ \A i \in 1..Len(times) : times[i] \in Nat
           /\ times = <<>> <=> Len(times) = 0
  <1>1. Len(times) \in Nat /\ DOMAIN times = 1..Len(times)
    OBVIOUS
  <1>2. \A i \in 1..Len(times) : times[i] \in Time
    OBVIOUS
  <1>3. \A i \in 1..Len(times) : times[i] \in Nat
    BY <1>2, Numbers
  <1>4. times = <<>> <=> Len(times) = 0
    OBVIOUS
  <1> QED
    BY <1>1, <1>3, <1>4

\* Time passes.
LEMMA WindowsLast ==
    ASSUME NEW times \in Seq(Time), NEW rec \in Records, NEW t \in Nat, NEW u \in Nat, t <= u,
           Windows(times, rec, t)
    PROVE  Windows(times, rec, u)
  <1>0. Window \in Nat /\ Len(times) \in Nat /\ \A i \in 1..Len(times) : times[i] \in Nat
    BY TimesAreNumbers, Numbers
  <1>1. Sorted(times, u)
    BY <1>0 DEF Windows, Sorted
  <1>2. ASSUME NEW f \in 1..Len(times), Opened(times, rec, t, f)
        PROVE  Opened(times, rec, u, f)
    BY <1>0, <1>2 DEF Opened
  <1> QED
    BY <1>1, <1>2 DEF Windows

\* The record of a window that is over is removed.
LEMMA WindowsCleaned ==
    ASSUME NEW times \in Seq(Time), NEW rec \in Records, NEW t \in Nat, rec.resetAt <= t,
           Windows(times, rec, t)
    PROVE  Windows(times, NoRecord, t)
  <1>1. ASSUME NEW f \in 1..Len(times), Opened(times, rec, t, f)
        PROVE  Opened(times, NoRecord, t, f)
    <2>1. times[f] + Window <= t
      BY <1>1, Numbers DEF Opened, Records
    <2> QED
      BY <1>1, <2>1 DEF Opened, NoRecord
  <1> QED
    BY <1>1 DEF Windows, NoRecord

LEMMA Appended ==
    ASSUME NEW times \in Seq(Time), NEW t \in Time
    PROVE  /\ Append(times, t) \in Seq(Time) /\ Append(times, t) # <<>>
           /\ Len(Append(times, t)) = Len(times) + 1 /\ Len(times) \in Nat
           /\ \A i \in 1..Len(times) : Append(times, t)[i] = times[i]
           /\ Append(times, t)[Len(times) + 1] = t
  OBVIOUS

\* A request more in an open window.
LEMMA WindowsCount ==
    ASSUME NEW times \in Seq(Time), NEW rec \in Records, NEW t \in Time,
           Windows(times, rec, t), rec.resetAt > t, rec.count < MaxAttempts
    PROVE  Windows(Append(times, t), [rec EXCEPT !.count = @ + 1], t)
  <1>0. MaxAttempts \in Nat \ {0} /\ Window \in Nat \ {0} /\ t \in Nat /\ rec.resetAt # 0
    BY Numbers DEF Records
  <1>1. PICK n \in Nat : n = Len(times)
    OBVIOUS
  <1>2. PICK f \in 1..n : Opened(times, rec, t, f)
    BY <1>0, <1>1 DEF Windows, Records
  <1>3. PICK more \in Seq(Time) : more = Append(times, t)
    BY Appended
  <1>4. /\ Len(more) = n + 1 /\ more # <<>> /\ more[n + 1] = t
        /\ \A i \in 1..n : more[i] = times[i] /\ more[i] \in Nat
    <2>1. \A i \in 1..n : times[i] \in Nat
      BY <1>1, TimesAreNumbers
    <2> QED
      BY <1>1, <1>3, <2>1, Appended
  <1>5. /\ \A i, j \in 1..n : i <= j => more[i] <= more[j]
        /\ \A i \in 1..n : more[i] <= t
    BY <1>1, <1>4 DEF Windows, Sorted
  <1>6. Sorted(more, t)
    BY <1>0, <1>4, <1>5 DEF Sorted
  <1>7. /\ n < f + MaxAttempts /\ f + rec.count = n + 1
        /\ rec.resetAt = more[f] + Window
        /\ \A i \in 1..n : i + MaxAttempts <= f => more[i] + Window <= more[f]
    BY <1>0, <1>1, <1>2, <1>4 DEF Opened
  <1>8. n + 1 < f + MaxAttempts
    BY <1>0, <1>7 DEF Records
  <1>9. Opened(more, [rec EXCEPT !.count = @ + 1], t, f)
    <2>0. rec.count + 1 \in Nat
      BY DEF Records
    <2>1. PICK rec2 \in Records : rec2 = [rec EXCEPT !.count = rec.count + 1]
      BY <2>0 DEF Records
    <2>2. rec2.resetAt = rec.resetAt /\ rec2.count = rec.count + 1 /\ rec.count \in Nat
      BY <2>1 DEF Records
    <2>3. f \in 1..(n + 1) /\ n + 1 < f + MaxAttempts
      BY <1>1, <1>2, <1>8
    <2>6. f + rec2.count = n + 1 + 1
      <3>1. PICK c \in Nat : c = rec.count
        BY <2>2
      <3>2. f + c = n + 1 /\ f \in Nat /\ n \in Nat
        BY <1>1, <1>2, <1>7, <3>1
      <3>3. f + (c + 1) = n + 1 + 1
        BY <3>1, <3>2
      <3> QED
        BY <2>2, <3>1, <3>3
    <2>7. rec2.resetAt = more[f] + Window
      BY <1>7, <2>2
    <2>4. \A i \in 1..(n + 1) : i + MaxAttempts <= f => more[i] + Window <= more[f]
      BY <1>0, <1>7
    <2>5. Opened(more, rec2, t, f)
      BY <1>0, <1>4, <2>2, <2>3, <2>4, <2>6, <2>7 DEF Opened
    <2> QED
      BY <2>1, <2>5
  <1>10. Apart(more)
    <2> SUFFICES ASSUME NEW i \in 1..(n + 1), NEW j \in 1..(n + 1), j = i + 2 * MaxAttempts - 1
                 PROVE  more[i] + Window <= more[j]
      BY <1>4 DEF Apart
    <2>1. CASE j <= n
      <3>1. i \in 1..n /\ j \in 1..n
        BY <1>0, <2>1
      <3>2. times[i] + Window <= times[j]
        BY <1>1, <3>1 DEF Windows, Apart
      <3> QED
        BY <1>4, <3>1, <3>2
    <2>2. CASE j = n + 1
      <3>1. i \in 1..n /\ i + MaxAttempts <= f
        BY <1>0, <1>8, <2>2
      <3>2. /\ more[i] + Window <= more[f] /\ more[f] <= t
            /\ more[i] \in Nat /\ more[f] \in Nat /\ more[j] = t
        BY <1>4, <1>5, <1>7, <2>2, <3>1
      <3> QED
        BY <1>0, <3>2
    <2> QED
      BY <2>1, <2>2
  <1> QED
    BY <1>3, <1>4, <1>6, <1>9, <1>10 DEF Windows

\* A request that opens a window.
LEMMA WindowsOpen ==
    ASSUME NEW times \in Seq(Time), NEW rec \in Records, NEW t \in Time,
           Windows(times, rec, t), rec.resetAt <= t
    PROVE  Windows(Append(times, t), [count |-> 1, resetAt |-> t + Window], t)
  <1>0. MaxAttempts \in Nat \ {0} /\ Window \in Nat \ {0} /\ t \in Nat
    BY Numbers
  <1>1. PICK n \in Nat : n = Len(times)
    OBVIOUS
  <1>3. PICK more \in Seq(Time) : more = Append(times, t)
    BY Appended
  <1>4. /\ Len(more) = n + 1 /\ more # <<>> /\ more[n + 1] = t
        /\ \A i \in 1..n : more[i] = times[i] /\ more[i] \in Nat
    <2>1. \A i \in 1..n : times[i] \in Nat
      BY <1>1, TimesAreNumbers
    <2> QED
      BY <1>1, <1>3, <2>1, Appended
  <1>5. /\ \A i, j \in 1..n : i <= j => more[i] <= more[j]
        /\ \A i \in 1..n : more[i] <= t
    BY <1>1, <1>4 DEF Windows, Sorted
  <1>6. Sorted(more, t)
    BY <1>0, <1>4, <1>5 DEF Sorted
  <1>7. \A i \in 1..n : i + MaxAttempts <= n + 1 => more[i] + Window <= t
    <2> SUFFICES ASSUME NEW i \in 1..n, i + MaxAttempts <= n + 1
                 PROVE  more[i] + Window <= t
      OBVIOUS
    <2>1. PICK f \in 1..n : Opened(times, rec, t, f)
      BY <1>1 DEF Windows
    <2>2. n < f + MaxAttempts /\ more[f] + Window <= t
      BY <1>0, <1>1, <1>4, <2>1 DEF Opened, Records
    <2>3. i <= f
      BY <1>0, <2>2
    <2> QED
      BY <1>0, <1>4, <1>5, <2>2, <2>3
  <1>8. Opened(more, [count |-> 1, resetAt |-> t + Window], t, n + 1)
    BY <1>0, <1>4, <1>7 DEF Opened
  <1>9. Apart(more)
    <2> SUFFICES ASSUME NEW i \in 1..(n + 1), NEW j \in 1..(n + 1), j = i + 2 * MaxAttempts - 1
                 PROVE  more[i] + Window <= more[j]
      BY <1>4 DEF Apart
    <2>1. CASE j <= n
      <3>1. i \in 1..n /\ j \in 1..n
        BY <1>0, <2>1
      <3>2. times[i] + Window <= times[j]
        BY <1>1, <3>1 DEF Windows, Apart
      <3> QED
        BY <1>4, <3>1, <3>2
    <2>2. CASE j = n + 1
      <3>1. i \in 1..n /\ i + MaxAttempts <= n + 1
        BY <1>0, <2>2
      <3> QED
        BY <1>4, <1>7, <2>2, <3>1
    <2> QED
      BY <2>1, <2>2
  <1> QED
    BY <1>3, <1>4, <1>6, <1>8, <1>9 DEF Windows

\* A window whose record is full.
LEMMA WindowsFull ==
    ASSUME NEW times \in Seq(Time), NEW rec \in Records, NEW t \in Time,
           Windows(times, rec, t), rec.resetAt > t, rec.count >= MaxAttempts
    PROVE  UsedUp(times, t)
  <1>0. MaxAttempts \in Nat \ {0} /\ Window \in Nat \ {0} /\ t \in Nat /\ rec.resetAt # 0
    BY Numbers DEF Records
  <1>1. PICK n \in Nat : n = Len(times)
    OBVIOUS
  <1>2. PICK f \in 1..n : Opened(times, rec, t, f)
    BY <1>0, <1>1 DEF Windows, Records
  <1>3. n < f + MaxAttempts /\ f + rec.count = n + 1 /\ rec.resetAt = times[f] + Window
    BY <1>0, <1>1, <1>2 DEF Opened
  <1>4. f + MaxAttempts - 1 = n
    BY <1>0, <1>3 DEF Records
  <1>5. times[f] \in Nat /\ times[n] <= t /\ DOMAIN times = 1..n
    <2>1. n \in 1..n
      BY <1>2
    <2> QED
      BY <1>1, <2>1, TimesAreNumbers DEF Windows, Sorted
  <1>6. times[f] > t - Window
    BY <1>0, <1>3, <1>5
  <1> QED
    BY <1>2, <1>4, <1>5, <1>6 DEF UsedUp

LEMMA UsedUpStays ==
    ASSUME NEW times \in Seq(Time), NEW u \in Time, NEW t \in Time, UsedUp(times, t)
    PROVE  UsedUp(Append(times, u), t)
  <1>1. PICK i \in 1..Len(times) :
          /\ i + MaxAttempts - 1 \in 1..Len(times)
          /\ times[i] > t - Window /\ times[i + MaxAttempts - 1] <= t
    BY TimesAreNumbers DEF UsedUp
  <1>2. /\ 1..Len(times) \subseteq DOMAIN Append(times, u)
        /\ \A k \in 1..Len(times) : Append(times, u)[k] = times[k]
    OBVIOUS
  <1> QED
    BY <1>1, <1>2 DEF UsedUp

\* What a request finds when its prune goes on.
GoesOn(on, q, todo, deleted, page) ==
    /\ on.pc \in {"delete", "list", "create"} /\ on.deleted = deleted
    /\ on.start = q.start /\ on.due = q.due /\ on.missed = q.missed /\ on.kind = q.kind
    /\ on.pc = "delete" => on.todo = todo /\ on.page = page
    /\ on.pc = "list" => todo = {} /\ on.todo = {} /\ on.page = page /\ page # 0
    /\ on.pc = "create" => on.todo = {}
    /\ on.pc = "create" /\ deleted < PruneMax => todo = {} /\ page = 0

LEMMA ResumedGoesOn ==
    ASSUME NEW q \in Rec, NEW todo \in SUBSET Pars, NEW deleted \in 0..PruneMax,
           NEW page \in Pars \cup {0}, now \in Time
    PROVE  GoesOn(Resumed(q, todo, deleted, page), q, todo, deleted, page)
  <1>1. CASE deleted < PruneMax /\ todo # {}
    BY <1>1 DEF Resumed, Rec, GoesOn
  <1>2. CASE deleted < PruneMax /\ todo = {} /\ page # 0
    BY <1>2 DEF Resumed, Rec, GoesOn
  <1>3. CASE deleted < PruneMax /\ todo = {} /\ page = 0
    BY <1>3 DEF Resumed, Rec, GoesOn
  <1>4. CASE ~(deleted < PruneMax)
    BY <1>4 DEF Resumed, Rec, GoesOn
  <1> QED
    BY <1>1, <1>2, <1>3, <1>4

\* A request that goes on is not refused, and is what it was or over.
LEMMA WorkIsNotRefused ==
    ASSUME Typed, NEW r \in Requests, WorkStep(r)
    PROVE  /\ req'[r].pc # "refused" /\ req'[r].kind \in {req[r].kind, "none"}
           /\ \A x \in Requests \ {r} : req'[x] = req[x]
  <1>1. ReqType /\ now \in Time /\ req[r] \in Rec /\ req \in [Requests -> Rec]
    BY TypesInGroups DEF Typed, ClockType, ReqType
  <1>2. CASE Work(r) \/ Create(r)
    BY <1>1, <1>2, NoRequestTyped DEF Work, Create
  <1>3. CASE Prune(r)
    <2> DEFINE q == [req[r] EXCEPT !.start = now, !.due = {p \in There : Expired(p, now)}]
    <2>1. q \in Rec
      BY <1>1 DEF Rec, There
    <2>2. GoesOn(Resumed(q, {}, 0, 0), q, {}, 0, 0)
      BY <1>1, <2>1, ResumedGoesOn, Numbers
    <2>3. [q EXCEPT !.pc = "list"].pc # "refused" /\ [q EXCEPT !.pc = "list"].kind = req[r].kind /\ q.kind = req[r].kind
      BY <2>1 DEF Rec
    <2> QED
      BY <1>1, <1>3, <2>2, <2>3 DEF Prune, GoesOn
  <1>4. CASE ListPage(r)
    <2>1. PICK page \in SUBSET Left(req[r].page), more \in Pars \cup {0} :
              req' = [req EXCEPT ![r] = Resumed(req[r], Due(page, req[r].start), req[r].deleted, more)]
      BY <1>4 DEF ListPage
    <2>2. Due(page, req[r].start) \in SUBSET Pars /\ req[r].deleted \in 0..PruneMax
      BY <1>1 DEF Due, Left, There, Rec
    <2>3. GoesOn(Resumed(req[r], Due(page, req[r].start), req[r].deleted, more),
                 req[r], Due(page, req[r].start), req[r].deleted, more)
      BY <1>1, <2>2, ResumedGoesOn
    <2> QED
      BY <1>1, <2>1, <2>3 DEF GoesOn
  <1>5. CASE ListFails(r)
    <2>1. /\ [req[r] EXCEPT !.missed = TRUE] \in Rec /\ req[r].deleted \in 0..PruneMax
          /\ [req[r] EXCEPT !.missed = TRUE].kind = req[r].kind
      BY <1>1 DEF Rec
    <2>2. GoesOn(Resumed([req[r] EXCEPT !.missed = TRUE], {}, req[r].deleted, 0),
                 [req[r] EXCEPT !.missed = TRUE], {}, req[r].deleted, 0)
      BY <1>1, <2>1, ResumedGoesOn
    <2> QED
      BY <1>1, <1>5, <2>1, <2>2 DEF ListFails, GoesOn
  <1>6. CASE Delete(r)
    <2> DEFINE left == req[r].todo \ {Min(req[r].todo)}
    <2>1. /\ [req[r] EXCEPT !.missed = TRUE] \in Rec /\ req[r].deleted \in 0..PruneMax
          /\ [req[r] EXCEPT !.missed = TRUE].kind = req[r].kind
          /\ left \in SUBSET Pars /\ req[r].page \in Pars \cup {0} /\ req[r] \in Fit
      BY <1>1 DEF Rec, Typed
    <2>2. req[r].deleted + 1 \in 0..PruneMax
      BY <1>6, <2>1, Numbers DEF Delete, Fit
    <2>3. /\ GoesOn(Resumed(req[r], left, req[r].deleted + 1, req[r].page),
                    req[r], left, req[r].deleted + 1, req[r].page)
          /\ GoesOn(Resumed(req[r], left, req[r].deleted, req[r].page),
                    req[r], left, req[r].deleted, req[r].page)
          /\ GoesOn(Resumed([req[r] EXCEPT !.missed = TRUE], left, req[r].deleted, req[r].page),
                    [req[r] EXCEPT !.missed = TRUE], left, req[r].deleted, req[r].page)
      BY <1>1, <2>1, <2>2, ResumedGoesOn
    <2> QED
      BY <1>1, <1>6, <2>1, <2>3 DEF Delete, GoesOn
  <1>7. CASE Read(r)
    <2>1. req' = [req EXCEPT ![r] = [req[r] EXCEPT !.pc = "read", !.seen = now]]
      BY <1>1, <1>7 DEF Read, Rec
    <2> QED
      BY <1>1, <2>1 DEF Rec
  <1>8. CASE Keep(r)
    <2>1. req' = [req EXCEPT ![r] = [req[r] EXCEPT !.pc = "answered"]]
      BY <1>1, <1>8 DEF Keep, Rec
    <2> QED
      BY <1>1, <2>1 DEF Rec
  <1> QED
    BY <1>2, <1>3, <1>4, <1>5, <1>6, <1>7, <1>8 DEF WorkStep

AllWindows == \A b \in Buckets : Windows(passed[b], attempts[b], now)

Refused(q) == q.pc = "refused" /\ q.kind # "confirm"

AllRefusals == \A r \in Requests : Refused(req[r]) => UsedUp(passed[req[r].bucket], req[r].start)

LimitInv == AllWindows /\ AllRefusals

LEMMA LimitInit == Init => LimitInv
  <1> SUFFICES ASSUME Init
               PROVE  LimitInv
    OBVIOUS
  <1>1. AllRefusals
    BY NoRequestTyped DEF Init, AllRefusals, Refused
  <1>2. ASSUME NEW b \in Buckets
        PROVE  Windows(passed[b], attempts[b], now)
    <2>1. passed[b] = <<>> /\ attempts[b] = NoRecord /\ Len(passed[b]) = 0
      BY DEF Init
    <2>2. \A i \in 1..0 : FALSE
      OBVIOUS
    <2> QED
      BY <2>1, <2>2 DEF Windows, Sorted, Apart, NoRecord
  <1> QED
    BY <1>1, <1>2 DEF LimitInv, AllWindows

LEMMA LimitedKeeps ==
    ASSUME Typed, LimitInv, NEW r \in Requests, NEW kind \in kinds, NEW b \in Buckets,
           Limited(r, kind, b)
    PROVE  LimitInv'
  <1>1. /\ now \in Time /\ now' = now /\ now \in Nat
        /\ attempts \in [Buckets -> Records] /\ passed \in [Buckets -> Seq(Time)]
        /\ req \in [Requests -> Rec] /\ kind \in Kinds
    BY TypesInGroups, Numbers DEF Typed, ClockType, LimitType, ReqType, Records, Limited, Kinds
  <1>2. Swept \in [Buckets -> Records]
    BY <1>1 DEF Swept, NoRecord, Records
  <1>3. ASSUME NEW c \in Buckets
        PROVE  Windows(passed[c], Swept[c], now)
    <2>1. Windows(passed[c], attempts[c], now)
      BY DEF LimitInv, AllWindows
    <2>2. CASE Swept[c] = attempts[c]
      BY <2>1, <2>2
    <2>3. CASE Swept[c] # attempts[c]
      <3>1. Swept[c] = NoRecord /\ attempts[c].resetAt <= now
        BY <1>1, <2>3 DEF Swept
      <3> QED
        BY <1>1, <2>1, <3>1, WindowsCleaned
    <2> QED
      BY <2>2, <2>3
  <1>4. Swept[b] \in Records /\ Swept[b].count \in Nat /\ Swept[b].resetAt \in Nat /\ MaxAttempts \in Nat
    BY <1>2, Numbers DEF Records
  <1>5. CASE Swept[b].resetAt > now /\ Swept[b].count >= MaxAttempts
    <2>1. /\ attempts' = Swept /\ passed' = passed
          /\ req' = [req EXCEPT ![r] = [Started(kind, b) EXCEPT !.pc = "refused", !.start = now]]
      BY <1>5 DEF Limited
    <2>2. AllWindows'
      BY <1>1, <1>3, <2>1 DEF AllWindows
    <2>3. req'[r].bucket = b /\ req'[r].start = now
      BY <1>1, <2>1, NoRequestTyped DEF Started, Rec
    <2>4. UsedUp(passed[b], now)
      BY <1>1, <1>3, <1>4, <1>5, WindowsFull
    <2>5. ASSUME NEW x \in Requests, Refused(req[x])'
          PROVE  UsedUp(passed'[req'[x].bucket], req'[x].start)
      <3>1. CASE x = r
        BY <2>1, <2>3, <2>4, <3>1
      <3>2. CASE x # r
        BY <1>1, <2>1, <2>5, <3>2 DEF LimitInv, AllRefusals, Refused
      <3> QED
        BY <3>1, <3>2
    <2> QED
      BY <2>2, <2>5 DEF LimitInv, AllRefusals
  <1>6. CASE ~(Swept[b].resetAt > now /\ Swept[b].count >= MaxAttempts)
    <2>1. /\ passed' = [passed EXCEPT ![b] = Append(passed[b], now)]
          /\ req' = [req EXCEPT ![r] = Started(kind, b)]
          /\ attempts' = [Swept EXCEPT ![b] =
                IF Swept[b].resetAt > now THEN [Swept[b] EXCEPT !.count = @ + 1]
                                          ELSE [count |-> 1, resetAt |-> now + Window]]
      BY <1>6 DEF Limited
    <2>2. ASSUME NEW c \in Buckets
          PROVE  Windows(passed'[c], attempts'[c], now')
      <3>1. CASE c # b
        <4>1. passed'[c] = passed[c] /\ attempts'[c] = Swept[c]
          BY <1>1, <1>2, <2>1, <3>1
        <4> QED
          BY <1>1, <1>3, <4>1
      <3>2. CASE c = b /\ Swept[b].resetAt > now
        <4>1. /\ passed'[c] = Append(passed[b], now)
              /\ attempts'[c] = [Swept[b] EXCEPT !.count = @ + 1]
          BY <1>1, <1>2, <2>1, <3>2
        <4>2. Swept[b].count < MaxAttempts
          BY <1>4, <1>6, <3>2
        <4>3. Windows(Append(passed[b], now), [Swept[b] EXCEPT !.count = @ + 1], now)
          BY <1>1, <1>3, <1>4, <3>2, <4>2, WindowsCount
        <4> QED
          BY <1>1, <4>1, <4>3
      <3>3. CASE c = b /\ ~(Swept[b].resetAt > now)
        <4>1. /\ passed'[c] = Append(passed[b], now)
              /\ attempts'[c] = [count |-> 1, resetAt |-> now + Window]
          BY <1>1, <1>2, <2>1, <3>3
        <4>2. Swept[b].resetAt <= now
          BY <1>1, <1>4, <3>3
        <4>3. Windows(Append(passed[b], now), [count |-> 1, resetAt |-> now + Window], now)
          BY <1>1, <1>3, <1>4, <4>2, WindowsOpen
        <4> QED
          BY <1>1, <4>1, <4>3
      <3> QED
        BY <3>1, <3>2, <3>3
    <2>3. req'[r].pc # "refused"
      BY <1>1, <2>1, NoRequestTyped DEF Started, Rec
    <2>4. ASSUME NEW x \in Requests, Refused(req[x])'
          PROVE  UsedUp(passed'[req'[x].bucket], req'[x].start)
      <3>1. req'[x] = req[x] /\ req[x] \in Rec /\ Refused(req[x])
        BY <1>1, <2>1, <2>3, <2>4 DEF Refused
      <3>2. req[x].bucket \in Buckets /\ req[x].start \in Time
        BY <3>1 DEF Rec
      <3>3. UsedUp(passed[req[x].bucket], req[x].start)
        BY <3>1 DEF LimitInv, AllRefusals
      <3>4. CASE req[x].bucket # b
        BY <1>1, <2>1, <3>1, <3>2, <3>3, <3>4
      <3>5. CASE req[x].bucket = b
        <4>1. passed'[b] = Append(passed[b], now)
          BY <1>1, <2>1
        <4>2. UsedUp(Append(passed[b], now), req[x].start)
          BY <1>1, <3>2, <3>3, <3>5, UsedUpStays
        <4> QED
          BY <3>1, <3>5, <4>1, <4>2
      <3> QED
        BY <3>4, <3>5
    <2> QED
      BY <2>2, <2>4 DEF LimitInv, AllWindows, AllRefusals
  <1> QED
    BY <1>5, <1>6

LEMMA LimitNext == Typed /\ LimitInv /\ [Next]_vars => LimitInv'
  <1> SUFFICES ASSUME Typed, LimitInv, [Next]_vars
               PROVE  LimitInv'
    OBVIOUS
  <1>1. /\ now \in Time /\ now \in Nat /\ attempts \in [Buckets -> Records]
        /\ passed \in [Buckets -> Seq(Time)] /\ req \in [Requests -> Rec] /\ StatsType
    BY TypesInGroups, Numbers DEF Typed, ClockType, LimitType, ReqType, Records
  \* Nobody is refused, and no time passes.
  <1>2. ASSUME UNCHANGED <<passed, attempts, now>>, NEW r \in Requests, ~Refused(req[r])',
               \A x \in Requests \ {r} : req'[x] = req[x]
        PROVE  LimitInv'
    <2>1. AllWindows'
      BY <1>2 DEF LimitInv, AllWindows
    <2>2. AllRefusals'
      BY <1>2 DEF LimitInv, AllRefusals, Refused
    <2> QED
      BY <2>1, <2>2 DEF LimitInv
  <1>3. ASSUME NEW r \in Requests, WorkStep(r)
        PROVE  LimitInv'
    <2>1. UNCHANGED <<passed, attempts, now>>
      BY <1>3 DEF WorkStep, Work, Prune, ListPage, ListFails, Delete, Create, Read, Keep, limiter
    <2>2. ~Refused(req[r])' /\ \A x \in Requests \ {r} : req'[x] = req[x]
      BY <1>3, WorkIsNotRefused DEF Refused
    <2> QED
      BY <1>2, <2>1, <2>2
  <1>4. ASSUME NEW r \in Requests,
               Access(r) \/ (\E force \in BOOLEAN : Ask(r, force)) \/ Confirm(r)
        PROVE  LimitInv'
    <2>1. UNCHANGED <<passed, attempts, now>> /\ \A x \in Requests \ {r} : req'[x] = req[x]
      BY <1>1, <1>4 DEF Access, Ask, Confirm, limiter
    <2>2. CASE Access(r)
      <3>1. req'[r].pc = "prune"
        BY <1>1, <2>2, NoRequestTyped DEF Access, Started, Rec
      <3> QED
        BY <1>2, <2>1, <3>1 DEF Refused
    <2>3. ASSUME NEW force \in BOOLEAN, Ask(r, force)
          PROVE  LimitInv'
      <3>1. req'[r].pc \in {"answered", "reading"}
        BY <1>1, <2>3, NoRequestTyped DEF Ask, Rec
      <3> QED
        BY <1>2, <2>1, <3>1 DEF Refused
    <2>4. CASE Confirm(r)
      <3>1. req'[r].kind = "confirm"
        BY <1>1, <2>4, NoRequestTyped DEF Confirm, Rec
      <3> QED
        BY <1>2, <2>1, <3>1 DEF Refused
    <2> QED
      BY <1>4, <2>2, <2>3, <2>4
  <1>5. CASE Tick
    <2>1. now' \in Nat /\ now <= now' /\ UNCHANGED <<passed, attempts, req>>
      BY <1>1, <1>5 DEF Tick, limiter
    <2>2. PICK u \in Nat : u = now' /\ now <= u
      BY <2>1
    <2>3. ASSUME NEW b \in Buckets
          PROVE  Windows(passed[b], attempts[b], u)
      BY <1>1, <2>2, WindowsLast DEF LimitInv, AllWindows
    <2> QED
      BY <2>1, <2>2, <2>3 DEF LimitInv, AllWindows, AllRefusals, Refused
  <1>6. CASE Signal \/ Close \/ Exit \/ UNCHANGED vars
    <2>1. UNCHANGED <<passed, attempts, now, req>>
      BY <1>6 DEF Signal, Close, Exit, vars, limiter
    <2> QED
      BY <2>1 DEF LimitInv, AllWindows, AllRefusals, Refused
  <1> QED
    BY <1>3, <1>4, <1>5, <1>6, LimitedKeeps DEF Next, Proceed, WorkStep

LEMMA LimitsHold == Typed /\ LimitInv => RateLimited
  <1> SUFFICES ASSUME Typed, LimitInv, NEW b \in Buckets
               PROVE  LET times == passed[b] IN
      /\ \A i \in DOMAIN times : i + 2 * MaxAttempts - 1 \in DOMAIN times =>
            times[i + 2 * MaxAttempts - 1] - times[i] >= Window
      /\ \A r \in Requests : req[r].pc = "refused" /\ req[r].kind # "confirm" /\ req[r].bucket = b =>
            \E i \in DOMAIN times :
              /\ i + MaxAttempts - 1 \in DOMAIN times
              /\ times[i] > req[r].start - Window /\ times[i + MaxAttempts - 1] <= req[r].start
    BY DEF RateLimited
  <1>1. PICK times \in Seq(Time) : times = passed[b]
    BY TypesInGroups DEF Typed, LimitType
  <1>2. Apart(times) /\ DOMAIN times = 1..Len(times) /\ Window \in Nat
        /\ \A i \in 1..Len(times) : times[i] \in Nat
    BY <1>1, TimesAreNumbers, Numbers DEF LimitInv, AllWindows, Windows
  <1>3. ASSUME NEW i \in 1..Len(times), i + 2 * MaxAttempts - 1 \in 1..Len(times)
        PROVE  times[i + 2 * MaxAttempts - 1] - times[i] >= Window
    <2>1. PICK j \in 1..Len(times) : j = i + 2 * MaxAttempts - 1
      BY <1>3
    <2>2. times[i] + Window <= times[j] /\ times[i] \in Nat /\ times[j] \in Nat
      BY <1>2, <2>1 DEF Apart
    <2> QED
      BY <1>2, <2>1, <2>2
  <1>4. ASSUME NEW r \in Requests, Refused(req[r]), req[r].bucket = b
        PROVE  UsedUp(times, req[r].start)
    BY <1>1, <1>4 DEF LimitInv, AllRefusals
  <1> QED
    BY <1>1, <1>2, <1>3, <1>4 DEF UsedUp, Refused

\* Windows are opened by the requests they count, so that a stretch as long as
\* a window sees fewer than two windows let through, and only those are refused
\* whose bucket has used up one (rate-limit.middleware.ts).
THEOREM LimitKept == Spec => []RateLimited
  <1>1. Init => LimitInv
    BY LimitInit
  <1>2. Typed /\ LimitInv /\ [Next]_vars => LimitInv'
    BY LimitNext
  <1>3. Typed /\ LimitInv => RateLimited
    BY LimitsHold
  <1> QED
    BY <1>1, <1>2, <1>3, AlwaysTyped, PTL DEF Spec

-----------------------------------------------------------------------------
(* The statistics.                                                          *)

Fresh(seen, until) == seen <= now /\ until <= seen + CacheTtl

\* What a request for the figures knows.
Knows(q) ==
    /\ q.start <= now /\ q.seen <= now
    /\ q.pc = "read" => q.start <= q.seen
    /\ q.pc = "answered" /\ q.kind = "stats" => q.start < q.seen + CacheTtl

Heeds(q) == q.pc = "answered" /\ q.kind = "stats" /\ q.forced => q.start <= q.seen

StatsInv ==
    /\ Fresh(stats.seen, stats.until)
    /\ \A r \in Requests : Knows(req[r]) /\ Heeds(req[r])

LEMMA StatsInit == Init => StatsInv
  <1> SUFFICES ASSUME Init
               PROVE  StatsInv
    OBVIOUS
  <1>1. NoRequest.seen = 0 /\ NoRequest.start = 0 /\ NoRequest.pc = "idle"
    BY DEF NoRequest
  <1>2. Knows(NoRequest)
    BY <1>1 DEF Init, Knows
  <1>3. Heeds(NoRequest)
    BY <1>1 DEF Heeds
  <1>4. Fresh(stats.seen, stats.until)
    BY Numbers DEF Init, Fresh
  <1> QED
    BY <1>2, <1>3, <1>4 DEF Init, StatsInv

\* One request takes a step, and the cache stays as it is.
LEMMA StatsStep ==
    ASSUME Typed, StatsInv, NEW r \in Requests, NEW q \in Fit, Knows(q), Heeds(q),
           UNCHANGED <<now, stats>>, req' = [req EXCEPT ![r] = q]
    PROVE  StatsInv'
  <1>1. req \in [Requests -> Fit]
    BY DEF Typed
  <1>2. Fresh(stats.seen, stats.until)'
    BY DEF StatsInv, Fresh
  <1>3. ASSUME NEW x \in Requests
        PROVE  (Knows(req[x]) /\ Heeds(req[x]))'
    <2>1. CASE x = r
      <3>1. req'[x] = q
        BY <1>1, <2>1
      <3> QED
        BY <3>1 DEF Knows, Heeds
    <2>2. CASE x # r
      <3>1. req'[x] = req[x]
        BY <1>1, <2>2
      <3> QED
        BY <3>1 DEF StatsInv, Knows, Heeds
    <2> QED
      BY <2>1, <2>2
  <1> QED
    BY <1>2, <1>3 DEF StatsInv

\* A request that is neither read nor answered only has to know the time.
LEMMA StatsArrival ==
    ASSUME Typed, StatsInv, NEW r \in Requests, ArrivalStep(r)
    PROVE  StatsInv'
  <1>1. /\ now \in Nat /\ now \in Time /\ StatsType /\ stats.seen \in Nat /\ stats.until \in Nat
        /\ CacheTtl \in Nat \ {0}
    BY TypesInGroups, Numbers DEF Typed, ClockType, StatsType
  <1>2. NoRequest.seen = 0 /\ NoRequest.start = 0 /\ NoRequest \in Fit /\ NoRequest \in Rec
    BY NoRequestTyped DEF NoRequest
  <1>3. ASSUME NEW kind \in kinds, NEW b \in Buckets, Limited(r, kind, b)
        PROVE  StatsInv'
    <2> DEFINE q == Started(kind, b)
               q2 == [Started(kind, b) EXCEPT !.pc = "refused", !.start = now]
    <2>1. kind \in Kinds
      BY <1>3 DEF Limited, Kinds
    <2>2. q \in Fit /\ q2 \in Fit
      BY <1>1, <2>1, StartedTyped
    <2>3. /\ q.seen = 0 /\ q.start = 0 /\ q.pc \in {"working", "prune"}
          /\ q2.seen = 0 /\ q2.start = now /\ q2.pc = "refused"
      BY <1>2 DEF Started, Rec
    <2>4. Knows(q) /\ Heeds(q) /\ Knows(q2) /\ Heeds(q2)
      <3>1. Knows(q) /\ Knows(q2)
        BY <1>1, <2>3 DEF Knows
      <3>2. Heeds(q) /\ Heeds(q2)
        BY <2>3 DEF Heeds
      <3> QED
        BY <3>1, <3>2
    <2>5. req' = [req EXCEPT ![r] = q] \/ req' = [req EXCEPT ![r] = q2]
      BY <1>3, Zenon DEF Limited
    <2>6. UNCHANGED <<now, stats>>
      BY <1>3 DEF Limited
    <2> HIDE DEF q, q2
    <2> QED
      BY <2>2, <2>4, <2>5, <2>6, StatsStep
  <1>4. CASE Access(r)
    <2> DEFINE q == Started("access", NoRequest.bucket)
    <2>1. q \in Fit
      BY <1>1, NoRequestTyped, StartedTyped DEF Kinds
    <2>2. q.seen = 0 /\ q.start = 0 /\ q.pc = "prune"
      BY <1>2 DEF Started, Rec
    <2>3. Knows(q)
      BY <1>1, <2>2 DEF Knows
    <2>4. Heeds(q)
      BY <2>2 DEF Heeds
    <2> QED
      BY <1>4, <2>1, <2>3, <2>4, StatsStep DEF Access
  <1>5. ASSUME NEW force \in BOOLEAN, Ask(r, force)
        PROVE  StatsInv'
    <2> DEFINE q == [NoRequest EXCEPT !.kind = "stats", !.start = now, !.forced = force]
               cached == [q EXCEPT !.pc = "answered", !.seen = stats.seen]
               asking == [q EXCEPT !.pc = "reading"]
    <2>1. cached \in Fit /\ asking \in Fit
      BY <1>1, <1>2 DEF Rec, Steps, Kinds, StatsType, Fit
    <2>2. UNCHANGED <<now, stats>>
      BY <1>5 DEF Ask
    <2>3. CASE ~force /\ now < stats.until
      <3>1. cached.start = now /\ cached.seen = stats.seen /\ cached.pc = "answered"
        BY <1>2 DEF Rec
      <3>2. ~cached.forced
        BY <1>2, <2>3 DEF Rec
      <3>3. now < stats.seen + CacheTtl /\ stats.seen <= now
        BY <1>1, <2>3 DEF StatsInv, Fresh
      <3>4. Knows(cached)
        BY <1>1, <3>1, <3>3 DEF Knows
      <3>5. Heeds(cached)
        BY <3>2, Zenon DEF Heeds
      <3>6. req' = [req EXCEPT ![r] = cached]
        BY <1>5, <2>3 DEF Ask
      <3> QED
        BY <2>1, <2>2, <3>4, <3>5, <3>6, StatsStep
    <2>4. CASE ~(~force /\ now < stats.until)
      <3>1. asking.start = now /\ asking.seen = 0 /\ asking.pc = "reading"
        BY <1>2 DEF Rec
      <3>2. Knows(asking)
        BY <1>1, <3>1 DEF Knows
      <3>3. Heeds(asking)
        BY <3>1 DEF Heeds
      <3>4. req' = [req EXCEPT ![r] = asking]
        BY <1>5, <2>4 DEF Ask
      <3> QED
        BY <2>1, <2>2, <3>2, <3>3, <3>4, StatsStep
    <2> QED
      BY <2>3, <2>4
  <1>6. CASE Confirm(r)
    <2> DEFINE yes == [NoRequest EXCEPT !.kind = "confirm", !.pc = "answered"]
               no  == [NoRequest EXCEPT !.kind = "confirm", !.pc = "refused"]
    <2>1. yes \in Fit /\ no \in Fit
      BY <1>2 DEF Rec, Steps, Kinds, Fit
    <2>2. /\ yes.seen = 0 /\ yes.start = 0 /\ yes.kind = "confirm" /\ yes.pc = "answered"
          /\ no.seen = 0 /\ no.start = 0 /\ no.kind = "confirm" /\ no.pc = "refused"
      BY <1>2 DEF Rec
    <2>3. Knows(yes) /\ Knows(no)
      BY <1>1, <2>2 DEF Knows
    <2>4. Heeds(yes) /\ Heeds(no)
      BY <2>2 DEF Heeds
    <2>5. req' = [req EXCEPT ![r] = yes] \/ req' = [req EXCEPT ![r] = no]
      BY <1>6 DEF Confirm
    <2>6. UNCHANGED <<now, stats>>
      BY <1>6 DEF Confirm
    <2> HIDE DEF yes, no
    <2> QED
      BY <2>1, <2>3, <2>4, <2>5, <2>6, StatsStep
  <1> QED
    BY <1>3, <1>4, <1>5, <1>6 DEF ArrivalStep

\* Only asking for figures and reading them does what the invariant is about.
Plain(q) == q.start <= now /\ q.seen <= now /\ q.pc \notin {"read", "answered"}

LEMMA PlainStep ==
    ASSUME Typed, StatsInv, NEW r \in Requests, WorkStep(r), ~Read(r), ~Keep(r)
    PROVE  \E q \in Fit : Plain(q) /\ req' = [req EXCEPT ![r] = q]
  <1>1. /\ ReqType /\ now \in Nat /\ now \in Time /\ req[r] \in Rec /\ req[r] \in Fit
        /\ req[r].start <= now /\ req[r].seen <= now /\ req \in [Requests -> Fit]
    BY TypesInGroups, Numbers DEF Typed, ClockType, ReqType, StatsInv, Knows
  <1> SUFFICES Plain(req'[r]) /\ req' = [req EXCEPT ![r] = req'[r]] /\ req'[r] \in Fit
    BY Zenon
  <1>2. req'[r] \in Fit
    BY WorkTyped
  <1>3. CASE Work(r) \/ Create(r)
    <2>1. req' = [req EXCEPT ![r] = NoRequest]
      BY <1>3 DEF Work, Create
    <2>2. NoRequest.seen = 0 /\ NoRequest.start = 0 /\ NoRequest.pc = "idle"
      BY DEF NoRequest
    <2>3. Plain(NoRequest)
      BY <1>1, <2>2 DEF Plain
    <2> QED
      BY <1>1, <1>2, <2>1, <2>3
  <1>4. CASE Prune(r)
    <2> DEFINE q == [req[r] EXCEPT !.start = now, !.due = {p \in There : Expired(p, now)}]
    <2>1. q \in Rec /\ q.start = now /\ q.seen = req[r].seen
      BY <1>1 DEF Rec, There
    <2>0. req' = [req EXCEPT ![r] = Resumed(q, {}, 0, 0)] \/ req' = [req EXCEPT ![r] = [q EXCEPT !.pc = "list"]]
      BY <1>4 DEF Prune
    <2> HIDE DEF q
    <2>2. GoesOn(Resumed(q, {}, 0, 0), q, {}, 0, 0)
      BY <1>1, <2>1, ResumedGoesOn, Numbers
    <2>3. Resumed(q, {}, 0, 0).seen = q.seen
      BY <1>1, <2>1 DEF Resumed, Rec
    <2>4. Plain(Resumed(q, {}, 0, 0))
      BY <1>1, <2>1, <2>2, <2>3 DEF GoesOn, Plain
    <2>5. Plain([q EXCEPT !.pc = "list"])
      BY <1>1, <2>1 DEF Rec, Plain
    <2> QED
      BY <1>1, <1>2, <2>0, <2>4, <2>5
  <1>5. ASSUME NEW q \in Rec, q.start = req[r].start, q.seen = req[r].seen,
               NEW todo \in SUBSET Pars, NEW deleted \in 0..PruneMax, NEW page \in Pars \cup {0},
               req' = [req EXCEPT ![r] = Resumed(q, todo, deleted, page)]
        PROVE  Plain(req'[r]) /\ req' = [req EXCEPT ![r] = req'[r]]
    <2>1. GoesOn(Resumed(q, todo, deleted, page), q, todo, deleted, page)
      BY <1>1, ResumedGoesOn
    <2>2. Resumed(q, todo, deleted, page).seen = q.seen
      BY DEF Resumed, Rec
    <2>3. Plain(Resumed(q, todo, deleted, page))
      BY <1>1, <1>5, <2>1, <2>2 DEF GoesOn, Plain
    <2> QED
      BY <1>1, <1>5, <2>3
  <1>6. CASE ListPage(r)
    <2>1. PICK page \in SUBSET Left(req[r].page), more \in Pars \cup {0} :
              req' = [req EXCEPT ![r] = Resumed(req[r], Due(page, req[r].start), req[r].deleted, more)]
      BY <1>6 DEF ListPage
    <2>2. Due(page, req[r].start) \in SUBSET Pars /\ req[r].deleted \in 0..PruneMax
      BY <1>1 DEF Due, Left, There, Rec
    <2> QED
      BY <1>1, <1>2, <1>5, <2>1, <2>2
  <1>7. CASE ListFails(r)
    <2> DEFINE q == [req[r] EXCEPT !.missed = TRUE]
    <2>1. q \in Rec /\ q.start = req[r].start /\ q.seen = req[r].seen /\ req[r].deleted \in 0..PruneMax
      BY <1>1 DEF Rec
    <2>2. req' = [req EXCEPT ![r] = Resumed(q, {}, req[r].deleted, 0)]
      BY <1>7 DEF ListFails
    <2> HIDE DEF q
    <2> QED
      BY <1>2, <1>5, <2>1, <2>2
  <1>8. CASE Delete(r)
    <2> DEFINE left == req[r].todo \ {Min(req[r].todo)}
               q == [req[r] EXCEPT !.missed = TRUE]
    <2>1. /\ q \in Rec /\ q.start = req[r].start /\ q.seen = req[r].seen
          /\ req[r].deleted \in 0..PruneMax
          /\ left \in SUBSET Pars /\ req[r].page \in Pars \cup {0}
      BY <1>1 DEF Rec
    <2>2. req[r].deleted + 1 \in 0..PruneMax
      BY <1>1, <1>8, <2>1, Numbers DEF Delete, Fit
    <2>3. \/ req' = [req EXCEPT ![r] = Resumed(req[r], left, req[r].deleted + 1, req[r].page)]
          \/ req' = [req EXCEPT ![r] = Resumed(req[r], left, req[r].deleted, req[r].page)]
          \/ req' = [req EXCEPT ![r] = Resumed(q, left, req[r].deleted, req[r].page)]
      BY <1>8 DEF Delete
    <2> HIDE DEF q, left
    <2> QED
      BY <1>1, <1>2, <1>5, <2>1, <2>2, <2>3
  <1> QED
    BY <1>2, <1>3, <1>4, <1>6, <1>7, <1>8 DEF WorkStep

LEMMA StatsWork ==
    ASSUME Typed, StatsInv, NEW r \in Requests, WorkStep(r)
    PROVE  StatsInv'
  <1>1. /\ ReqType /\ now \in Nat /\ now \in Time /\ req[r] \in Rec /\ req[r] \in Fit
        /\ req[r].start \in Nat /\ req[r].seen \in Nat
        /\ Knows(req[r]) /\ Heeds(req[r]) /\ req \in [Requests -> Fit] /\ CacheTtl \in Nat \ {0}
    BY TypesInGroups, Numbers DEF Typed, ClockType, ReqType, StatsInv, Rec
  <1>2. CASE ~Read(r) /\ ~Keep(r)
    <2>1. PICK q \in Fit : Plain(q) /\ req' = [req EXCEPT ![r] = q]
      BY <1>2, PlainStep
    <2>2. UNCHANGED <<now, stats>>
      BY <1>2 DEF WorkStep, Work, Prune, ListPage, ListFails, Delete, Create
    <2>3. Knows(q)
      BY <2>1 DEF Plain, Knows
    <2>4. Heeds(q)
      BY <2>1 DEF Plain, Heeds
    <2> QED
      BY <2>1, <2>2, <2>3, <2>4, StatsStep
  <1>3. CASE Read(r)
    <2>1. PICK q \in Fit : q = [req[r] EXCEPT !.pc = "read", !.seen = now]
      BY <1>1 DEF Rec, Steps, Fit
    <2>2. req' = [req EXCEPT ![r] = q]
      BY <1>1, <1>3, <2>1 DEF Read, Rec
    <2>3. q.pc = "read" /\ q.seen = now /\ q.start = req[r].start
      BY <1>1, <2>1 DEF Rec
    <2>4. Knows(q)
      BY <1>1, <2>3 DEF Knows
    <2>5. Heeds(q)
      BY <2>3 DEF Heeds
    <2> QED
      BY <1>3, <2>2, <2>4, <2>5, StatsStep DEF Read
  <1>4. CASE Keep(r)
    <2>1. PICK q \in Fit : q = [req[r] EXCEPT !.pc = "answered"]
      BY <1>1 DEF Rec, Steps, Fit
    <2>2. req' = [req EXCEPT ![r] = q] /\ now' = now
      BY <1>1, <1>4, <2>1 DEF Keep, Rec
    <2>3. q.pc = "answered" /\ q.seen = req[r].seen /\ q.start = req[r].start
      BY <1>1, <2>1 DEF Rec
    <2>4. q.start <= q.seen /\ q.start <= now /\ q.seen <= now
      BY <1>1, <1>4, <2>3 DEF Knows, Keep
    <2>5. Knows(q)
      BY <1>1, <2>3, <2>4 DEF Knows
    <2>6. Heeds(q)
      BY <2>4 DEF Heeds
    <2>7. stats'.seen = req[r].seen /\ stats'.until = req[r].start + CacheTtl
      BY <1>4 DEF Keep
    <2>8. Fresh(stats.seen, stats.until)'
      BY <1>1, <2>2, <2>3, <2>4, <2>7 DEF Fresh
    <2>9. ASSUME NEW x \in Requests
          PROVE  (Knows(req[x]) /\ Heeds(req[x]))'
      <3>1. req'[x] = q \/ req'[x] = req[x]
        BY <1>1, <2>2
      <3> QED
        BY <2>2, <2>5, <2>6, <3>1 DEF StatsInv, Knows, Heeds
    <2> QED
      BY <2>8, <2>9 DEF StatsInv
  <1> QED
    BY <1>2, <1>3, <1>4

LEMMA StatsNext == Typed /\ StatsInv /\ [Next]_vars => StatsInv'
  <1> SUFFICES ASSUME Typed, StatsInv, [Next]_vars
               PROVE  StatsInv'
    OBVIOUS
  <1>1. now \in Nat /\ StatsType /\ ReqType /\ Time \subseteq Nat
    BY TypesInGroups, Numbers DEF Typed, ClockType
  <1>2. CASE Tick
    <2>1. now' = now + 1 /\ UNCHANGED <<stats, req>>
      BY <1>2 DEF Tick
    <2>2. PICK u \in Nat : u = now' /\ now <= u
      BY <1>1, <2>1
    <2>3. stats.seen \in Nat /\ \A x \in Requests : req[x].start \in Nat /\ req[x].seen \in Nat
      BY <1>1 DEF StatsType, ReqType, Rec
    <2>4. Fresh(stats.seen, stats.until)'
      BY <1>1, <2>1, <2>2, <2>3 DEF StatsInv, Fresh
    <2>5. ASSUME NEW x \in Requests
          PROVE  (Knows(req[x]) /\ Heeds(req[x]))'
      <3>1. Knows(req[x])'
        BY <1>1, <2>1, <2>2, <2>3 DEF StatsInv, Knows
      <3>2. Heeds(req[x])'
        BY <2>1 DEF StatsInv, Heeds
      <3> QED
        BY <3>1, <3>2
    <2> QED
      BY <2>4, <2>5 DEF StatsInv
  <1>3. CASE Signal \/ Close \/ Exit \/ UNCHANGED vars
    <2>1. UNCHANGED <<now, stats, req>>
      BY <1>3 DEF Signal, Close, Exit, vars
    <2> QED
      BY <2>1 DEF StatsInv, Fresh, Knows, Heeds
  <1> QED
    BY <1>2, <1>3, StatsArrival, StatsWork DEF Next, Proceed, WorkStep, ArrivalStep

LEMMA StatsHold == Typed /\ StatsInv => AnswersAreRecent
  <1> SUFFICES ASSUME Typed, StatsInv, NEW r \in Requests, req[r].pc = "answered", req[r].kind = "stats"
               PROVE  /\ req[r].start - req[r].seen < CacheTtl
                      /\ req[r].forced => req[r].seen >= req[r].start
    BY DEF AnswersAreRecent
  <1>1. Knows(req[r]) /\ Heeds(req[r]) /\ req[r].start \in Nat /\ req[r].seen \in Nat /\ CacheTtl \in Nat
    BY TypesInGroups, Numbers DEF Typed, StatsInv, ReqType, Rec
  <1>2. req[r].start - req[r].seen < CacheTtl
    BY <1>1 DEF Knows
  <1>3. ASSUME req[r].forced
        PROVE  req[r].seen >= req[r].start
    <2>1. req[r].start <= req[r].seen
      BY <1>1, <1>3, Zenon DEF Heeds
    <2> QED
      BY <1>1, <2>1
  <1> QED
    BY <1>2, <1>3

\* Whoever asks gets figures younger than the life of the cache, and figures
\* read after it asked if it forces a refresh, in whichever order refreshes end
\* (storage.service.ts getStorageStats).
THEOREM FiguresAreRecent == Spec => []AnswersAreRecent
  <1>1. Init => StatsInv
    BY StatsInit
  <1>2. Typed /\ StatsInv /\ [Next]_vars => StatsInv'
    BY StatsNext
  <1>3. Typed /\ StatsInv => AnswersAreRecent
    BY StatsHold
  <1> QED
    BY <1>1, <1>2, <1>3, AlwaysTyped, PTL DEF Spec

-----------------------------------------------------------------------------
(* The end of the process.                                                  *)

Quiet == \A r \in Requests : ~InProgress(r)

EndInv ==
    /\ process = "up" => signals = 0
    /\ process \in {"closing", "closed"} => signals = 1
    /\ process = "closed" => Quiet
    /\ process = "exited" /\ signals = 1 => Quiet

LEMMA EndNext == Typed /\ EndInv /\ [Next]_vars => EndInv'
  <1> SUFFICES ASSUME Typed, EndInv, [Next]_vars
               PROVE  EndInv'
    OBVIOUS
  <1>1. EndType /\ ReqType
    BY TypesInGroups DEF Typed
  <1>2. ASSUME NEW r \in Requests, ArrivalStep(r)
        PROVE  EndInv'
    <2>1. process = "up" /\ UNCHANGED <<process, signals>>
      BY <1>2 DEF ArrivalStep, Limited, Access, Ask, Confirm, Arrives, ending
    <2> QED
      BY <2>1 DEF EndInv
  <1>3. ASSUME NEW r \in Requests, WorkStep(r), process # "exited"
        PROVE  EndInv'
    <2>1. InProgress(r)
      BY <1>3 DEF WorkStep, Work, Prune, ListPage, ListFails, Delete, Create, Read, Keep, InProgress
    <2>2. UNCHANGED <<process, signals>>
      BY <1>3 DEF WorkStep, Work, Prune, ListPage, ListFails, Delete, Create, Read, Keep, ending
    <2> QED
      BY <1>3, <2>1, <2>2 DEF EndInv, Quiet
  <1>4. CASE Signal
    <2>1. process' = IF signals = 0 THEN "closing" ELSE "exited"
      BY <1>4 DEF Signal
    <2>2. signals' = signals + 1 /\ signals \in 0..2
      BY <1>1, <1>4 DEF Signal, EndType
    <2> QED
      BY <2>1, <2>2 DEF EndInv
  <1>5. CASE Close \/ Exit
    BY <1>5 DEF Close, Exit, EndInv, Quiet, InProgress
  <1>6. CASE Tick \/ UNCHANGED vars
    BY <1>6 DEF Tick, vars, ending, EndInv, Quiet, InProgress
  <1> QED
    BY <1>2, <1>3, <1>4, <1>5, <1>6 DEF Next, Proceed, ArrivalStep, WorkStep

\* A process asked to stop once leaves no request it has begun without an
\* answer (server.ts shutdown).
THEOREM StopIsGraceful == Spec => []StopsBetweenRequests
  <1>1. Init => EndInv
    BY DEF Init, EndInv
  <1>2. EndInv => StopsBetweenRequests
    BY DEF EndInv, Quiet, StopsBetweenRequests
  <1> QED
    BY <1>1, <1>2, EndNext, AlwaysTyped, PTL DEF Spec

-----------------------------------------------------------------------------
(* Induction over numbers, from the well-founded order of the library, and  *)
(* the functions that recursion over 0..n defines.                          *)

LEMMA LeastElement ==
    ASSUME NEW S \in SUBSET Nat, S # {}
    PROVE  \E x \in S : \A y \in S : x <= y
  <1>1. PICK x \in S : \A y \in S : ~(<<y, x>> \in OpToRel(<, Nat))
    BY NatLessThanWellFounded, WFMin
  <1>2. ASSUME NEW y \in S
        PROVE  x <= y
    <2>1. x \in Nat /\ y \in Nat
      OBVIOUS
    <2>2. <<y, x>> \in Nat \X Nat /\ <<y, x>>[1] = y /\ <<y, x>>[2] = x
      BY <2>1
    <2>3. ~(<<y, x>>[1] < <<y, x>>[2])
      BY <1>1, <2>2, Zenon DEF OpToRel
    <2> QED
      BY <2>1, <2>2, <2>3
  <1> QED
    BY <1>2

LEMMA SetInduction ==
    ASSUME NEW S \in SUBSET Nat, 0 \in S, \A n \in S : n + 1 \in S
    PROVE  S = Nat
  <1> SUFFICES ASSUME Nat \ S # {}
               PROVE  FALSE
    OBVIOUS
  <1>1. PICK x \in Nat \ S : \A y \in Nat \ S : x <= y
    BY LeastElement
  <1>2. x # 0 /\ x - 1 \in Nat /\ x - 1 \notin S
    BY <1>1
  <1> QED
    BY <1>1, <1>2

Follows(f, V, base, d, n) ==
    f \in [0..n -> V] /\ f[0] = base /\ \A i \in 1..n : f[i] = d[<<i, f[i - 1]>>]

LEMMA RecursionExists ==
    ASSUME NEW V, NEW base \in V, NEW d \in [Nat \X V -> V], NEW n \in Nat
    PROVE  \E f : Follows(f, V, base, d, n)
  <1> USE DEF Follows
  <1> DEFINE Ex(m) == \E f \in [0..m -> V] : f[0] = base /\ \A i \in 1..m : f[i] = d[<<i, f[i - 1]>>]
             S == {m \in Nat : Ex(m)}
  <1>1. 0 \in S
    <2> DEFINE f == [i \in 0..0 |-> base]
    <2>1. f \in [0..0 -> V] /\ f[0] = base /\ 1..0 = {}
      OBVIOUS
    <2> HIDE DEF f
    <2>2. Ex(0)
      BY <2>1
    <2> QED
      BY <2>2
  <1>2. ASSUME NEW m \in S
        PROVE  m + 1 \in S
    <2>1. PICK f \in [0..m -> V] : f[0] = base /\ \A i \in 1..m : f[i] = d[<<i, f[i - 1]>>]
      OBVIOUS
    <2>2. m \in Nat /\ f[m] \in V /\ d[<<m + 1, f[m]>>] \in V
      OBVIOUS
    <2> DEFINE g == [i \in 0..(m + 1) |-> IF i = m + 1 THEN d[<<m + 1, f[m]>>] ELSE f[i]]
    <2>3. g \in [0..(m + 1) -> V]
      BY <2>2
    <2>4. \A i \in 0..m : g[i] = f[i]
      BY <2>2
    <2>5. g[m + 1] = d[<<m + 1, f[m]>>]
      BY <2>2
    <2> HIDE DEF g
    <2>6. \A i \in 1..(m + 1) : g[i] = d[<<i, g[i - 1]>>]
      BY <2>1, <2>2, <2>4, <2>5
    <2> QED
      BY <2>1, <2>2, <2>3, <2>4, <2>6
  <1>3. S = Nat
    <2> HIDE DEF Ex
    <2> QED
      BY <1>1, <1>2, SetInduction
  <1> QED
    BY <1>3

LEMMA SumsAdd ==
    ASSUME NEW s \in Seq(Nat)
    PROVE  /\ Sums(s) \in [0..Len(s) -> Nat] /\ Sums(s)[0] = 0
           /\ \A i \in 1..Len(s) : Sums(s)[i] = Sums(s)[i - 1] + s[i]
  <1> DEFINE n == Len(s)
             d == [x \in Nat \X Nat |-> IF x[1] \in 1..n THEN x[2] + s[x[1]] ELSE 0]
  <1>1. n \in Nat /\ \A i \in 1..n : s[i] \in Nat
    OBVIOUS
  <1>2. d \in [Nat \X Nat -> Nat]
    BY <1>1
  <1>3. PICK f : Follows(f, Nat, 0, d, n)
    <2> HIDE DEF d, n
    <2>1. 0 \in Nat
      OBVIOUS
    <2> QED
      BY <1>1, <1>2, <2>1, RecursionExists, Zenon
  <1>4. \A i \in 1..n : f[i] = f[i - 1] + s[i]
    <2> SUFFICES ASSUME NEW i \in 1..n
                 PROVE  f[i] = f[i - 1] + s[i]
      OBVIOUS
    <2>1. i \in Nat /\ i - 1 \in 0..n /\ f[i - 1] \in Nat
      BY <1>1, <1>3 DEF Follows
    <2> QED
      BY <1>3, <2>1 DEF Follows
  <1>5. f = [i \in 0..n |-> IF i = 0 THEN 0 ELSE f[i - 1] + s[i]]
    BY <1>1, <1>3, <1>4 DEF Follows
  <1>6. Sums(s) = [i \in 0..n |-> IF i = 0 THEN 0 ELSE Sums(s)[i - 1] + s[i]]
    BY <1>5 DEF Sums
  <1>7. \A i \in 0..n : Sums(s)[i] = IF i = 0 THEN 0 ELSE Sums(s)[i - 1] + s[i]
    BY <1>6
  <1> DEFINE S == {i \in Nat : i \in 0..n => Sums(s)[i] \in Nat}
  <1>8. S = Nat
    <2>1. 0 \in S
      BY <1>1, <1>7
    <2>2. ASSUME NEW i \in S
          PROVE  i + 1 \in S
      BY <1>1, <1>7
    <2> QED
      BY <2>1, <2>2, SetInduction
  <1>9. \A i \in 0..n : Sums(s)[i] \in Nat
    BY <1>8, <1>1
  <1>10. Sums(s) \in [0..n -> Nat]
    BY <1>6, <1>9, Zenon
  <1> HIDE DEF S, d
  <1> QED
    BY <1>1, <1>7, <1>10

-----------------------------------------------------------------------------
(* The expired PARs.                                                        *)

LEMMA MinIsSmallest ==
    ASSUME NEW S \in SUBSET Pars, S # {}
    PROVE  Min(S) \in S
  <1>1. PICK x \in S : \A y \in S : x <= y
    BY Numbers, LeastElement
  <1> QED
    BY <1>1 DEF Min

\* What a prune still has before it of the PARs it should find.
Before(q, there) ==
    ~q.missed =>
      /\ q.pc = "list" => \A p \in q.due \cap there : p > q.page
      /\ q.pc = "delete" => \A p \in q.due \cap there : p \in q.todo \/ (q.page # 0 /\ p > q.page)
      /\ q.pc = "create" /\ q.deleted < PruneMax => q.due \cap there = {}

\* Only what has expired is found, and nothing that is still to be made.
Found(q) ==
    /\ q.start <= now
    /\ \A p \in q.todo \cup q.due : pars[p].state # "new" /\ Expired(p, q.start)

PruneInv ==
    /\ \A p \in Pars : pars[p].state = "gone" => Expired(p, now)
    /\ \A r \in Requests : Found(req[r]) /\ Before(req[r], There)

LEMMA PruneInit == Init => PruneInv
  <1> SUFFICES ASSUME Init
               PROVE  PruneInv
    OBVIOUS
  <1>1. Found(NoRequest) /\ Before(NoRequest, There)
    BY NoRequestTyped DEF Init, Found, Before
  <1> QED
    BY <1>1 DEF Init, PruneInv

LEMMA PruneNumbers ==
    ASSUME Typed
    PROVE  /\ now \in Nat /\ now \in Time /\ Grace \in Nat /\ req \in [Requests -> Fit]
           /\ req \in [Requests -> Rec]
           /\ \A p \in Pars : p \in Nat \ {0} /\ pars[p].until \in Nat
           /\ \A r \in Requests : req[r].start \in Nat /\ req[r].start \in Time
           /\ ParsType
  BY TypesInGroups, Numbers DEF Typed, ClockType, ParsType, ReqType, Rec

\* One request takes a step, and the PARs stay as they are.
LEMMA PruneStep ==
    ASSUME Typed, PruneInv, NEW r \in Requests, NEW q \in Fit, Found(q), Before(q, There),
           UNCHANGED <<now, pars>>, req' = [req EXCEPT ![r] = q]
    PROVE  PruneInv'
  <1>1. There' = There /\ req \in [Requests -> Fit]
    BY DEF There, Typed
  <1>2. ASSUME NEW x \in Requests
        PROVE  (Found(req[x]) /\ Before(req[x], There))'
    <2>1. req'[x] = q \/ req'[x] = req[x]
      BY <1>1
    <2> QED
      BY <1>1, <2>1 DEF PruneInv, Found, Before, Expired
  <1> QED
    BY <1>2 DEF PruneInv, Expired

LEMMA PruneArrival ==
    ASSUME Typed, PruneInv, NEW r \in Requests, ArrivalStep(r)
    PROVE  PruneInv'
  <1>1. /\ now \in Nat /\ req'[r] \in Fit /\ req' = [req EXCEPT ![r] = req'[r]]
        /\ UNCHANGED <<now, pars>>
    <2>1. req'[r] \in Fit /\ req \in [Requests -> Fit] /\ now \in Nat
      BY ArrivalTyped, PruneNumbers
    <2> QED
      BY <2>1 DEF ArrivalStep, Limited, Access, Ask, Confirm
  <1>2. /\ req'[r].todo = {} /\ req'[r].due = {} /\ req'[r].start \in {0, now}
        /\ req'[r].pc \notin {"list", "delete", "create"}
    <2>1. req \in [Requests -> Fit] /\ NoRequest \in Rec
      BY PruneNumbers, NoRequestTyped
    <2>2. CASE Access(r)
      BY <2>1, <2>2, NoRequestTyped DEF Access, Started, Rec
    <2>3. CASE Confirm(r)
      BY <2>1, <2>3, NoRequestTyped DEF Confirm, Rec
    <2>4. ASSUME NEW force \in BOOLEAN, Ask(r, force)
          PROVE  /\ req'[r].todo = {} /\ req'[r].due = {} /\ req'[r].start \in {0, now}
                 /\ req'[r].pc \notin {"list", "delete", "create"}
      BY <2>1, <2>4, NoRequestTyped DEF Ask, Rec
    <2>5. ASSUME NEW kind \in kinds, NEW b \in Buckets, Limited(r, kind, b)
          PROVE  /\ req'[r].todo = {} /\ req'[r].due = {} /\ req'[r].start \in {0, now}
                 /\ req'[r].pc \notin {"list", "delete", "create"}
      <3>1. \/ req' = [req EXCEPT ![r] = Started(kind, b)]
            \/ req' = [req EXCEPT ![r] = [Started(kind, b) EXCEPT !.pc = "refused", !.start = now]]
        BY <2>5, Zenon DEF Limited
      <3>2. /\ Started(kind, b).todo = {} /\ Started(kind, b).due = {} /\ Started(kind, b).start = 0
            /\ Started(kind, b).pc \in {"working", "prune"} /\ Started(kind, b) \in Rec
        <4>1. kind \in Kinds /\ now \in Time
          BY <2>5, PruneNumbers DEF Limited, Kinds
        <4>2. Started(kind, b) \in Rec
          BY <4>1, StartedTyped DEF Fit
        <4> QED
          BY <4>2, NoRequestTyped DEF Started, Rec
      <3>3. PICK q \in Rec : q = Started(kind, b)
        BY <3>2
      <3>4. req'[r] = q \/ req'[r] = [q EXCEPT !.pc = "refused", !.start = now]
        BY <2>1, <3>1, <3>3
      <3> QED
        BY <3>2, <3>3, <3>4 DEF Rec
    <2> QED
      BY <2>2, <2>3, <2>4, <2>5 DEF ArrivalStep
  <1>3. PICK q \in Fit : q = req'[r]
    BY <1>1
  <1>4. Found(q) /\ Before(q, There)
    BY <1>1, <1>2, <1>3 DEF Found, Before
  <1> QED
    BY <1>1, <1>3, <1>4, PruneStep

\* A page of the listing.
LEMMA PageLeavesNothing ==
    ASSUME Typed, PruneInv, NEW r \in Requests, ListPage(r)
    PROVE  PruneInv'
  <1> DEFINE left == Left(req[r].page)
  <1>1. PICK page \in SUBSET left, more \in Pars \cup {0} :
          /\ \A p \in page, x \in left \ page : p < x
          /\ IF page = left THEN more = 0 ELSE more \in page /\ \A p \in page : p <= more
          /\ req' = [req EXCEPT ![r] = Resumed(req[r], Due(page, req[r].start), req[r].deleted, more)]
    BY DEF ListPage
  <1>2. /\ req[r] \in Rec /\ req[r] \in Fit /\ req[r].deleted \in 0..PruneMax /\ req[r].pc = "list"
        /\ now \in Time
        /\ Due(page, req[r].start) \in SUBSET Pars /\ Found(req[r]) /\ Before(req[r], There)
    BY PruneNumbers DEF PruneInv, ListPage, Rec, Due, Left, There
  <1>3. PICK todo \in SUBSET Pars : todo = Due(page, req[r].start)
    BY <1>2
  <1>4. PICK on \in Fit : on = Resumed(req[r], todo, req[r].deleted, more)
    BY <1>2, ResumedTyped
  <1>5. GoesOn(on, req[r], todo, req[r].deleted, more)
    BY <1>2, <1>4, ResumedGoesOn
  <1>6. \A p \in todo : p \in page /\ p \in There /\ Expired(p, req[r].start)
    BY <1>3 DEF Due, Left
  <1>7. Found(on)
    <2>1. on.start = req[r].start /\ on.due = req[r].due /\ (on.todo = todo \/ on.todo = {})
      BY <1>5 DEF GoesOn
    <2> QED
      BY <1>2, <1>6, <2>1 DEF Found, There
  <1>8. ASSUME ~on.missed
        PROVE  \A p \in on.due \cap There : p \in todo \/ (more # 0 /\ p > more)
    <2> SUFFICES ASSUME NEW p \in on.due \cap There
                 PROVE  p \in todo \/ (more # 0 /\ p > more)
      OBVIOUS
    <2>1. p \in req[r].due /\ p \in There /\ ~req[r].missed /\ p \in Pars
      BY <1>5, <1>8 DEF GoesOn, There
    <2>2. p \in left
      BY <1>2, <2>1 DEF Before, Left
    <2>3. CASE p \in page
      BY <1>2, <1>3, <2>1, <2>3 DEF Found, Due
    <2>4. CASE p \notin page
      <3>1. more \in page /\ more < p /\ more # 0
        BY <1>1, <2>2, <2>4, Numbers DEF Left, There
      <3>2. p \in Nat /\ more \in Nat
        BY <1>1, <2>1, Numbers
      <3> QED
        BY <3>1, <3>2
    <2> QED
      BY <2>3, <2>4
  <1>9. Before(on, There)
    BY <1>5, <1>8 DEF Before, GoesOn
  <1>10. UNCHANGED <<now, pars>>
    BY DEF ListPage
  <1> QED
    BY <1>1, <1>3, <1>4, <1>7, <1>9, <1>10, PruneStep

\* A deletion: what it leaves is gone, or was gone before, or is missed.
LEMMA DeletionLeavesNothing ==
    ASSUME Typed, PruneInv, NEW r \in Requests, Delete(r)
    PROVE  PruneInv'
  <1> DEFINE p == Min(req[r].todo)
  <1>1. /\ req[r] \in Rec /\ req[r] \in Fit /\ req[r].deleted \in 0..PruneMax /\ req[r].pc = "delete"
        /\ now \in Time /\ req[r].page \in Pars \cup {0} /\ req[r].todo \in SUBSET Pars
        /\ Found(req[r]) /\ Before(req[r], There)
    BY PruneNumbers DEF PruneInv, Delete, Rec
  <1>2. PICK left \in SUBSET Pars : left = req[r].todo \ {p}
    BY <1>1
  <1>3. req[r].deleted + 1 \in 0..PruneMax
    BY <1>1, Numbers DEF Fit
  <1>4. PICK q \in Rec : q = [req[r] EXCEPT !.missed = TRUE]
    BY <1>1 DEF Rec
  <1>5. UNCHANGED now
    BY DEF Delete
  \* What any outcome leaves, as long as the rest is before it.
  <1>6. ASSUME NEW from \in Rec, from.start = req[r].start, from.due = req[r].due,
               NEW deleted \in 0..PruneMax, NEW there,
               ~from.missed =>
                 \A x \in from.due \cap there : x \in left \/ (req[r].page # 0 /\ x > req[r].page)
        PROVE  \E on \in Fit :
                 /\ on = Resumed(from, left, deleted, req[r].page)
                 /\ Found(on) /\ Before(on, there)
    <2>1. PICK on \in Fit : on = Resumed(from, left, deleted, req[r].page)
      BY <1>1, ResumedTyped
    <2>2. GoesOn(on, from, left, deleted, req[r].page)
      BY <1>1, <2>1, ResumedGoesOn
    <2>3. on.start = req[r].start /\ on.due = req[r].due /\ on.todo \subseteq req[r].todo
      BY <1>2, <1>6, <2>2 DEF GoesOn
    <2>4. Found(on)
      BY <1>1, <2>3 DEF Found
    <2>5. Before(on, there)
      BY <1>6, <2>2 DEF Before, GoesOn
    <2> QED
      BY <2>1, <2>4, <2>5
  <1>7. CASE pars' = pars
    <2>1. \/ p \notin There /\ req' = [req EXCEPT ![r] = Resumed(req[r], left, req[r].deleted, req[r].page)]
          \/ req' = [req EXCEPT ![r] = Resumed(q, left, req[r].deleted, req[r].page)]
          \/ p \in There /\ pars' = [pars EXCEPT ![p].state = "gone"]
      BY <1>2, <1>4 DEF Delete
    <2>2. ~(p \in There /\ pars' = [pars EXCEPT ![p].state = "gone"])
      BY <1>7, PruneNumbers DEF There, ParsType
    <2>3. CASE p \notin There /\ req' = [req EXCEPT ![r] = Resumed(req[r], left, req[r].deleted, req[r].page)]
      <3>1. ~req[r].missed =>
              \A x \in req[r].due \cap There : x \in left \/ (req[r].page # 0 /\ x > req[r].page)
        BY <1>1, <1>2, <2>3 DEF Before
      <3>2. PICK on \in Fit : /\ on = Resumed(req[r], left, req[r].deleted, req[r].page)
                              /\ Found(on) /\ Before(on, There)
        BY <1>1, <1>6, <3>1
      <3> QED
        BY <1>5, <1>7, <2>3, <3>2, PruneStep
    <2>4. CASE req' = [req EXCEPT ![r] = Resumed(q, left, req[r].deleted, req[r].page)]
      <3>1. q.missed /\ q.start = req[r].start /\ q.due = req[r].due
        BY <1>1, <1>4 DEF Rec
      <3>2. PICK on \in Fit : /\ on = Resumed(q, left, req[r].deleted, req[r].page)
                              /\ Found(on) /\ Before(on, There)
        BY <1>1, <1>6, <3>1
      <3> QED
        BY <1>5, <1>7, <2>4, <3>2, PruneStep
    <2> QED
      BY <2>1, <2>2, <2>3, <2>4
  <1>8. CASE pars' # pars
    <2>1. /\ pars' = [pars EXCEPT ![p].state = "gone"] /\ p \in There
          /\ req' = [req EXCEPT ![r] = Resumed(req[r], left, req[r].deleted + 1, req[r].page)]
      BY <1>2, <1>8 DEF Delete
    <2>2. /\ There' = There \ {p}
          /\ \A x \in Pars : pars'[x].until = pars[x].until
          /\ \A x \in Pars : pars'[x].state = "new" <=> pars[x].state = "new"
          /\ \A x \in Pars \ {p} : pars'[x].state = pars[x].state
      BY <2>1, PruneNumbers DEF There, ParsType
    <2>3. ~req[r].missed =>
            \A x \in req[r].due \cap (There \ {p}) : x \in left \/ (req[r].page # 0 /\ x > req[r].page)
      BY <1>1, <1>2 DEF Before
    <2>4. PICK on \in Fit : /\ on = Resumed(req[r], left, req[r].deleted + 1, req[r].page)
                            /\ Found(on) /\ Before(on, There \ {p})
      BY <1>1, <1>3, <1>6, <2>3
    <2>5. \A x \in Requests : req'[x] = on \/ req'[x] = req[x]
      BY <2>1, <2>4, PruneNumbers
    <2>6. ASSUME NEW x \in Requests
          PROVE  (Found(req[x]) /\ Before(req[x], There))'
      <3>1. req'[x] \in Rec
        BY <2>4, <2>5, PruneNumbers DEF Fit
      <3>2. req'[x].todo \cup req'[x].due \subseteq Pars
        BY <3>1 DEF Rec
      <3>3. Found(req'[x]) /\ Before(req'[x], There \ {p})
        <4>1. CASE req'[x] = on
          BY <2>4, <4>1
        <4>2. CASE req'[x] = req[x]
          BY <4>2 DEF PruneInv, Before
        <4> QED
          BY <2>5, <4>1, <4>2
      <3>4. Found(req[x])'
        BY <1>5, <2>2, <3>2, <3>3 DEF Found, Expired
      <3>5. Before(req[x], There)'
        BY <2>2, <3>3 DEF Before
      <3> QED
        BY <3>4, <3>5
    <2>7. Expired(p, now)
      <3>1. p \in req[r].todo /\ p \in Pars
        BY <1>1, MinIsSmallest DEF Fit
      <3>2. Expired(p, req[r].start) /\ req[r].start <= now
        BY <1>1, <3>1 DEF Found
      <3>3. pars[p].until + Grace \in Nat /\ req[r].start \in Nat /\ now \in Nat
        BY <3>1, PruneNumbers
      <3> QED
        BY <3>2, <3>3 DEF Expired
    <2>8. ASSUME NEW x \in Pars, pars'[x].state = "gone"
          PROVE  Expired(x, now)'
      <3>1. Expired(x, now)
        BY <2>2, <2>7, <2>8 DEF PruneInv
      <3> QED
        BY <1>5, <2>2, <3>1 DEF Expired
    <2> QED
      BY <2>6, <2>8 DEF PruneInv
  <1> QED
    BY <1>7, <1>8

\* A PAR is made, or none is.
LEMMA CreationAddsNew ==
    ASSUME Typed, PruneInv, NEW r \in Requests, Create(r)
    PROVE  PruneInv'
  <1>1. now' = now /\ req' = [req EXCEPT ![r] = NoRequest]
    BY DEF Create
  <1>2. CASE pars' = pars
    <2>1. Found(NoRequest) /\ Before(NoRequest, There) /\ NoRequest \in Fit
      BY NoRequestTyped, PruneNumbers DEF Found, Before
    <2> QED
      BY <1>1, <1>2, <2>1, PruneStep
  <1>3. CASE pars' # pars
    <2>1. PICK p \in Pars : /\ pars[p].state = "new"
                            /\ pars' = [pars EXCEPT ![p] = [state |-> "there", until |-> req[r].until]]
      BY <1>3 DEF Create
    <2>2. There' = There \cup {p} /\ \A x \in Pars \ {p} : pars'[x] = pars[x]
      BY <2>1, PruneNumbers DEF There, ParsType
    <2>3. pars'[p].state = "there"
      BY <2>1, PruneNumbers DEF ParsType
    <2>4. ASSUME NEW x \in Requests
          PROVE  (Found(req[x]) /\ Before(req[x], There))'
      <3>1. /\ req'[x] \in Rec /\ Found(req'[x]) /\ Before(req'[x], There)
        <4>1. Found(NoRequest) /\ Before(NoRequest, There) /\ NoRequest \in Rec
          BY NoRequestTyped, PruneNumbers DEF Found, Before
        <4>2. req'[x] = NoRequest \/ req'[x] = req[x]
          BY <1>1, PruneNumbers
        <4> QED
          BY <4>1, <4>2, PruneNumbers DEF PruneInv
      <3>2. \A y \in req'[x].todo \cup req'[x].due : y \in Pars /\ y # p
        BY <2>1, <3>1 DEF Found, Rec
      <3>3. Found(req[x])'
        BY <1>1, <2>2, <3>1, <3>2 DEF Found, Expired
      <3>4. Before(req[x], There)'
        BY <2>2, <3>1, <3>2 DEF Before
      <3> QED
        BY <3>3, <3>4
    <2>5. ASSUME NEW x \in Pars, pars'[x].state = "gone"
          PROVE  Expired(x, now)'
      BY <1>1, <2>2, <2>3, <2>5 DEF PruneInv, Expired
    <2> QED
      BY <2>4, <2>5 DEF PruneInv
  <1> QED
    BY <1>2, <1>3

LEMMA PruneWork ==
    ASSUME Typed, PruneInv, NEW r \in Requests, WorkStep(r)
    PROVE  PruneInv'
  <1>1. /\ req[r] \in Rec /\ req[r] \in Fit /\ req[r].deleted \in 0..PruneMax /\ now \in Time /\ now \in Nat
        /\ Found(req[r]) /\ Before(req[r], There) /\ req \in [Requests -> Rec]
    BY PruneNumbers DEF PruneInv, Rec
  <1>2. CASE Work(r)
    <2>1. Found(NoRequest) /\ Before(NoRequest, There) /\ NoRequest \in Fit
      BY NoRequestTyped, PruneNumbers DEF Found, Before
    <2> QED
      BY <1>2, <2>1, PruneStep DEF Work
  <1>3. CASE Prune(r)
    <2>1. PICK due \in SUBSET Pars : due = {p \in There : Expired(p, now)}
      BY DEF There
    <2>2. PICK q \in Rec : q = [req[r] EXCEPT !.start = now, !.due = due]
      BY <1>1 DEF Rec
    <2>3. /\ q.start = now /\ q.due = due /\ q.deleted = 0 /\ q.page = 0 /\ q.todo = req[r].todo
          /\ q.missed = req[r].missed
      BY <1>1, <1>3, <2>2 DEF Rec, Fit, Prune
    <2>4. \A p \in due : pars[p].state # "new" /\ Expired(p, now) /\ p > 0
      BY <2>1, PruneNumbers DEF There
    <2>5. \A p \in q.todo : p \in Pars /\ pars[p].state # "new" /\ Expired(p, now)
      <3> SUFFICES ASSUME NEW p \in req[r].todo
                   PROVE  p \in Pars /\ pars[p].state # "new" /\ Expired(p, now)
        BY <2>3
      <3>1. p \in Pars /\ pars[p].state # "new" /\ Expired(p, req[r].start) /\ req[r].start <= now
        BY <1>1 DEF Found, Rec
      <3>2. pars[p].until + Grace \in Nat /\ req[r].start \in Nat
        BY <3>1, PruneNumbers
      <3> QED
        BY <1>1, <3>1, <3>2 DEF Expired
    <2>6. UNCHANGED <<now, pars>>
      BY <1>3 DEF Prune
    <2>7. CASE PruneMax = 0
      <3>1. PICK on \in Fit : on = Resumed(q, {}, 0, 0)
        BY <1>1, Numbers, ResumedTyped
      <3>2. GoesOn(on, q, {}, 0, 0)
        BY <1>1, <3>1, Numbers, ResumedGoesOn
      <3>3. on.todo = {}
        BY <3>2 DEF GoesOn
      <3>4. Found(on)
        BY <1>1, <2>3, <2>4, <3>2, <3>3 DEF Found, GoesOn
      <3>5. Before(on, There)
        BY <2>3, <2>4, <2>7, <3>1, <3>2 DEF Before, GoesOn, Fit
      <3> QED
        BY <1>3, <2>1, <2>2, <2>6, <2>7, <3>1, <3>4, <3>5, PruneStep DEF Prune
    <2>8. CASE PruneMax # 0
      <3>1. PICK on \in Rec : on = [q EXCEPT !.pc = "list"]
        BY DEF Rec, Steps
      <3>2. /\ on.pc = "list" /\ on.page = 0 /\ on.due = due /\ on.todo = q.todo /\ on.start = now
            /\ on.deleted = 0
        BY <2>3, <3>1 DEF Rec
      <3>3. on \in Fit
        BY <2>8, <3>2, Numbers DEF Fit
      <3>4. Found(on)
        BY <1>1, <2>4, <2>5, <3>2 DEF Found
      <3>5. Before(on, There)
        BY <2>4, <3>2 DEF Before
      <3> QED
        BY <1>3, <2>1, <2>2, <2>6, <2>8, <3>1, <3>3, <3>4, <3>5, PruneStep DEF Prune
    <2> QED
      BY <2>7, <2>8
  <1>4. CASE ListFails(r)
    <2>1. PICK q \in Rec : q = [req[r] EXCEPT !.missed = TRUE]
      BY <1>1 DEF Rec
    <2>2. q.missed /\ q.start = req[r].start /\ q.due = req[r].due
      BY <1>1, <2>1 DEF Rec
    <2>3. PICK on \in Fit : on = Resumed(q, {}, req[r].deleted, 0)
      BY <1>1, ResumedTyped
    <2>4. GoesOn(on, q, {}, req[r].deleted, 0)
      BY <1>1, <2>3, ResumedGoesOn
    <2>5. on.todo = {} /\ on.start = req[r].start /\ on.due = req[r].due /\ on.missed
      BY <2>2, <2>4, Zenon DEF GoesOn
    <2>6. Found(on)
      BY <1>1, <2>5 DEF Found
    <2>7. Before(on, There)
      BY <2>5, Zenon DEF Before
    <2> QED
      BY <1>4, <2>1, <2>3, <2>6, <2>7, PruneStep DEF ListFails
  <1>5. CASE Read(r) \/ Keep(r)
    <2>1. PICK q \in Fit : q = req'[r]
      BY WorkTyped
    <2>2. /\ req' = [req EXCEPT ![r] = q] /\ UNCHANGED <<now, pars>>
          /\ q.todo = req[r].todo /\ q.due = req[r].due /\ q.start = req[r].start
          /\ q.pc \in {"read", "answered"}
      BY <1>1, <1>5, <2>1 DEF Read, Keep, Rec
    <2>3. Found(q)
      BY <1>1, <2>2 DEF Found
    <2>4. Before(q, There)
      BY <2>2 DEF Before
    <2> QED
      BY <2>2, <2>3, <2>4, PruneStep
  <1> QED
    BY <1>2, <1>3, <1>4, <1>5, PageLeavesNothing, DeletionLeavesNothing, CreationAddsNew DEF WorkStep

LEMMA PruneNext == Typed /\ PruneInv /\ [Next]_vars => PruneInv'
  <1> SUFFICES ASSUME Typed, PruneInv, [Next]_vars
               PROVE  PruneInv'
    OBVIOUS
  <1>1. CASE Tick
    <2>1. now' = now + 1 /\ UNCHANGED <<pars, req>> /\ now \in Nat
      BY <1>1, PruneNumbers DEF Tick
    <2>2. There' = There
      BY <2>1 DEF There
    <2>3. ASSUME NEW x \in Requests
          PROVE  (Found(req[x]) /\ Before(req[x], There))'
      <3>1. Found(req[x]) /\ Before(req[x], There) /\ req[x].start \in Nat
        BY PruneNumbers DEF PruneInv
      <3>2. req'[x].start <= now'
        BY <2>1, <3>1 DEF Found
      <3> QED
        BY <2>1, <2>2, <3>1, <3>2 DEF Found, Before, Expired
    <2>4. ASSUME NEW p \in Pars, pars'[p].state = "gone"
          PROVE  Expired(p, now)'
      <3>1. Expired(p, now) /\ pars[p].until + Grace \in Nat
        BY <2>1, <2>4, PruneNumbers DEF PruneInv
      <3> QED
        BY <2>1, <3>1 DEF Expired
    <2> QED
      BY <2>3, <2>4 DEF PruneInv
  <1>2. CASE Signal \/ Close \/ Exit \/ UNCHANGED vars
    <2>1. UNCHANGED <<pars, req, now>>
      BY <1>2 DEF Signal, Close, Exit, vars
    <2> QED
      BY <2>1 DEF PruneInv, Found, Before, There, Expired
  <1> QED
    BY <1>1, <1>2, PruneArrival, PruneWork DEF Next, Proceed, WorkStep, ArrivalStep

\* Whatever other prunes remove between its pages, one whose calls succeed and
\* which ends below its limit leaves nothing that was due when it began; and
\* only what has expired goes (oci-par-prune.ts).
THEOREM ExpiredGo == Spec => []ExpiredAreGone
  <1>1. Init => PruneInv
    BY PruneInit
  <1>2. Typed /\ PruneInv /\ [Next]_vars => PruneInv'
    BY PruneNext
  <1>3. PruneInv => ExpiredAreGone
    BY DEF PruneInv, Before, ExpiredAreGone
  <1> QED
    BY <1>1, <1>2, <1>3, AlwaysTyped, PTL DEF Spec

-----------------------------------------------------------------------------
(* Archives: where the headers are, what is taken for the end record, and   *)
(* what the walk has seen after each round.                                 *)

LEMMA Limits == MaxNames \in Nat /\ MaxExpanded \in Nat /\ MaxRatio \in Nat /\ MaxComment \in Nat
  BY LimitsOK DEF LimitsOK

LEMMA ElementsTyped ==
    ASSUME NEW E, NEW q \in Seq(E)
    PROVE  /\ Len(q) \in Nat /\ DOMAIN q = 1..Len(q)
           /\ \A i \in 1..Len(q) : q[i] \in E
  OBVIOUS

LEMMA Listing ==
    ASSUME NEW a, Packable(a)
    PROVE  /\ Len(a.entries) \in Nat /\ DOMAIN a.entries = 1..Len(a.entries)
           /\ \A i \in 1..Len(a.entries) : /\ a.entries[i].size \in Nat
                                           /\ a.entries[i].name \in Nat /\ a.entries[i].rest \in Nat
           /\ a.data \in Nat /\ a.comment \in Nat /\ a.cut \in Nat
           /\ Lengths(a) \in Seq(Nat) /\ Len(Lengths(a)) = Len(a.entries)
           /\ Sizes(a) \in Seq(Nat) /\ Len(Sizes(a)) = Len(a.entries)
  <1>1. /\ Len(a.entries) \in Nat /\ DOMAIN a.entries = 1..Len(a.entries)
        /\ \A i \in 1..Len(a.entries) : /\ a.entries[i].size \in Nat
                                        /\ a.entries[i].name \in Nat /\ a.entries[i].rest \in Nat
        /\ a.data \in Nat /\ a.comment \in Nat /\ a.cut \in Nat
    <2>1. a.entries \in Seq([ext : STRING, size : Nat, name : Nat, rest : Nat])
      BY DEF Packable
    <2>2. Len(a.entries) \in Nat /\ DOMAIN a.entries = 1..Len(a.entries)
      BY <2>1, ElementsTyped, Zenon
    <2>3. \A i \in 1..Len(a.entries) : a.entries[i] \in [ext : STRING, size : Nat, name : Nat, rest : Nat]
      BY <2>1, ElementsTyped, Zenon
    <2>4. a.data \in Nat /\ a.comment \in Nat /\ a.cut \in Nat
      BY DEF Packable
    <2> QED
      BY <2>2, <2>3, <2>4
  <1>2. Lengths(a) \in Seq(Nat) /\ Len(Lengths(a)) = Len(a.entries)
    BY <1>1 DEF Lengths, HeadLength
  <1>3. Sizes(a) \in Seq(Nat) /\ Len(Sizes(a)) = Len(a.entries)
    BY <1>1 DEF Sizes
  <1> QED
    BY <1>1, <1>2, <1>3

LEMMA Layout ==
    ASSUME NEW a, Packable(a)
    PROVE  LET n == Len(a.entries) IN
           /\ \A i \in 1..(n + 1) : Offset(a, i) \in Nat
           /\ Offset(a, 1) = a.data /\ Offset(a, n + 1) = DirEnd(a)
           /\ \A i \in 1..n : Offset(a, i + 1)
                                = Offset(a, i) + HeadLength + a.entries[i].name + a.entries[i].rest
  <1> DEFINE n == Len(a.entries)
  <1> DEFINE s == Lengths(a)
  <1>1. /\ s \in Seq(Nat) /\ Len(s) = n /\ n \in Nat /\ a.data \in Nat /\ DOMAIN a.entries = 1..n
    BY Listing
  <1>2. /\ Sums(s) \in [0..n -> Nat] /\ Sums(s)[0] = 0
        /\ \A i \in 1..n : Sums(s)[i] = Sums(s)[i - 1] + s[i]
    BY <1>1, SumsAdd
  <1>3. \A i \in 1..n : s[i] = HeadLength + a.entries[i].name + a.entries[i].rest
    BY <1>1 DEF Lengths
  <1>4. PICK t : t = Sums(s)
    OBVIOUS
  <1>5. /\ \A i \in 0..n : Offset(a, i + 1) = a.data + t[i]
        /\ DirEnd(a) = a.data + t[n]
    <2>1. \A i \in 0..n : (i + 1) - 1 = i
      BY <1>1
    <2> QED
      BY <1>4, <2>1 DEF Offset, DirEnd
  <1>10. t \in [0..n -> Nat] /\ t[0] = 0 /\ \A i \in 1..n : t[i] = t[i - 1] + s[i]
    BY <1>2, <1>4
  <1> HIDE DEF s, n
  <1>6. \A i \in 1..(n + 1) : Offset(a, i) \in Nat
    <2> SUFFICES ASSUME NEW i \in 1..(n + 1)
                 PROVE  Offset(a, i) \in Nat
      OBVIOUS
    <2>1. i - 1 \in 0..n /\ (i - 1) + 1 = i
      BY <1>1
    <2>2. Offset(a, i) = a.data + t[i - 1]
      BY <1>5, <2>1
    <2> QED
      BY <1>1, <1>10, <2>1, <2>2
  <1>7. Offset(a, 1) = a.data /\ Offset(a, n + 1) = DirEnd(a)
    <2>1. 0 \in 0..n /\ n \in 0..n /\ 0 + 1 = 1
      BY <1>1
    <2>2. Offset(a, 0 + 1) = a.data + t[0] /\ Offset(a, n + 1) = a.data + t[n]
      BY <1>5, <2>1
    <2>3. a.data + t[0] = a.data
      BY <1>1, <1>10
    <2> QED
      BY <1>5, <2>1, <2>2, <2>3
  <1>8. ASSUME NEW i \in 1..n
        PROVE  Offset(a, i + 1) = Offset(a, i) + HeadLength + a.entries[i].name + a.entries[i].rest
    <2>1. i \in Nat /\ i + 1 \in 1..(n + 1) /\ i \in 1..(n + 1) /\ (i + 1) - 1 = i
      BY <1>1
    <2>2. /\ a.entries[i].name \in Nat /\ a.entries[i].rest \in Nat
      BY <2>1, Listing DEF n
    <2>3. t[i - 1] \in Nat /\ i - 1 \in 0..n /\ HeadLength \in Nat
      BY <1>1, <1>10 DEF HeadLength
    <2>4. Offset(a, i + 1) = a.data + t[i] /\ Offset(a, i) = a.data + t[i - 1]
      <3>1. i \in 0..n /\ i - 1 \in 0..n /\ (i - 1) + 1 = i
        BY <1>1
      <3> QED
        BY <1>5, <3>1
    <2>5. t[i] = t[i - 1] + (HeadLength + a.entries[i].name + a.entries[i].rest)
      BY <1>3, <1>10
    <2>6. PICK u \in Nat, v \in Nat : u = a.entries[i].name /\ v = a.entries[i].rest
      BY <2>2
    <2>7. t[i] = t[i - 1] + (HeadLength + u + v)
      BY <2>5, <2>6
    <2>8. u \in Nat /\ v \in Nat /\ a.data \in Nat
      BY <1>1, <2>6
    <2>9. Offset(a, i + 1) = Offset(a, i) + HeadLength + u + v
      BY <2>3, <2>4, <2>7, <2>8
    <2> QED
      BY <2>6, <2>9
  <1> QED
    BY <1>6, <1>7, <1>8 DEF n

LEMMA HeadersApart ==
    ASSUME NEW a, Packable(a), NEW j \in 1..(Len(a.entries) + 1), NEW i \in 1..(j - 1)
    PROVE  Offset(a, i) + HeadLength <= Offset(a, j)
  <1> DEFINE n == Len(a.entries)
             S == {m \in Nat : m \in 1..(n + 1) =>
                      \A x \in 1..(m - 1) : Offset(a, x) + HeadLength <= Offset(a, m)}
  <1>1. n \in Nat /\ HeadLength \in Nat
    BY Listing DEF HeadLength
  <1>2. 0 \in S
    OBVIOUS
  <1>3. ASSUME NEW m \in S
        PROVE  m + 1 \in S
    <2> SUFFICES ASSUME m + 1 \in 1..(n + 1), NEW x \in 1..m
                 PROVE  Offset(a, x) + HeadLength <= Offset(a, m + 1)
      BY <1>1
    <2>1. m \in 1..n /\ x \in 1..(n + 1) /\ m \in 1..(n + 1)
      BY <1>1
    <2>2. /\ Offset(a, m + 1) = Offset(a, m) + HeadLength + a.entries[m].name + a.entries[m].rest
          /\ a.entries[m].name \in Nat /\ a.entries[m].rest \in Nat
          /\ Offset(a, m) \in Nat /\ Offset(a, x) \in Nat
      BY <2>1, Layout, Listing
    <2>3. x = m \/ x \in 1..(m - 1)
      BY <2>1
    <2> QED
      <3>3. Offset(a, m) + HeadLength <= Offset(a, m + 1)
        <4>1. PICK u \in Nat, v \in Nat : u = a.entries[m].name /\ v = a.entries[m].rest
          BY <2>2
        <4>2. Offset(a, m + 1) = Offset(a, m) + HeadLength + u + v
          BY <2>2, <4>1
        <4>3. u \in Nat /\ v \in Nat /\ Offset(a, m) \in Nat /\ HeadLength \in Nat
          BY <1>1, <2>2, <4>1
        <4> QED
          BY <4>2, <4>3
      <3>1. CASE x = m
        BY <3>1, <3>3
      <3>2. CASE x \in 1..(m - 1)
        <4>1. Offset(a, x) + HeadLength <= Offset(a, m)
          BY <2>1, <3>2
        <4>2. Offset(a, m + 1) \in Nat
          BY Layout
        <4> QED
          BY <1>1, <2>2, <3>3, <4>1, <4>2
      <3> QED
        BY <2>3, <3>1, <3>2
  <1>4. S = Nat
    <2>1. S \in SUBSET Nat
      OBVIOUS
    <2> HIDE DEF S
    <2> QED
      BY <1>2, <1>3, <2>1, SetInduction
  <1>5. j \in Nat /\ j \in S
    BY <1>1, <1>4
  <1> QED
    BY <1>5

LEMMA HeadsFound ==
    ASSUME NEW a, Packable(a), NEW i \in 1..Len(a.entries)
    PROVE  Offset(a, i) \in DOMAIN Buffer(a).heads /\ Buffer(a).heads[Offset(a, i)] = a.entries[i]
  <1>1. DOMAIN a.entries = 1..Len(a.entries) /\ Len(a.entries) \in Nat /\ HeadLength \in Nat \ {0}
    BY Listing DEF HeadLength
  <1>2. ASSUME NEW j \in 1..Len(a.entries), Offset(a, j) = Offset(a, i)
        PROVE  j = i
    <2>1. Offset(a, i) \in Nat
      BY <1>1, Layout
    <2>2. CASE j < i
      BY <1>1, <1>2, <2>1, <2>2, HeadersApart
    <2>3. CASE i < j
      BY <1>1, <1>2, <2>1, <2>3, HeadersApart
    <2> QED
      BY <1>1, <2>2, <2>3
  <1>3. (CHOOSE j \in DOMAIN a.entries : Offset(a, j) = Offset(a, i)) = i
    BY <1>1, <1>2
  <1> QED
    BY <1>1, <1>3 DEF Buffer

LEMMA MaxIsLargest ==
    ASSUME NEW x \in Nat
    PROVE  Max({x}) = x
  BY DEF Max

LEMMA DirectoryFits ==
    ASSUME NEW a, Packable(a)
    PROVE  /\ DirEnd(a) \in Nat /\ a.data <= DirEnd(a) /\ Packed(a) \in Int
           /\ \A i \in 1..Len(a.entries) :
                 Offset(a, i) + HeadLength + a.entries[i].name + a.entries[i].rest <= DirEnd(a)
  <1> DEFINE n == Len(a.entries)
  <1>1. n \in Nat /\ a.data \in Nat /\ a.comment \in Nat /\ a.cut \in Nat /\ HeadLength \in Nat \ {0}
    BY Listing DEF HeadLength
  <1>2. /\ \A i \in 1..(n + 1) : Offset(a, i) \in Nat
        /\ Offset(a, 1) = a.data /\ Offset(a, n + 1) = DirEnd(a)
    BY Layout
  <1>3. DirEnd(a) \in Nat /\ n + 1 \in 1..(n + 1)
    BY <1>1, <1>2
  <1>4. \A i \in 1..n : Offset(a, i) + HeadLength <= Offset(a, n + 1)
    BY <1>1, <1>3, HeadersApart
  <1>5. a.data <= DirEnd(a)
    <2>1. CASE n = 0
      BY <1>1, <1>2, <2>1
    <2>2. CASE n # 0
      <3>1. 1 \in 1..n
        BY <1>1, <2>2
      <3>2. a.data + HeadLength <= DirEnd(a)
        BY <1>2, <1>4, <3>1
      <3> QED
        BY <1>1, <1>3, <3>2
    <2> QED
      BY <2>1, <2>2
  <1>6. Packed(a) \in Int
    BY <1>1, <1>3 DEF Packed, EndLength
  <1>7. ASSUME NEW i \in 1..n
        PROVE  Offset(a, i) + HeadLength + a.entries[i].name + a.entries[i].rest <= DirEnd(a)
    <2>1. Offset(a, i + 1) = Offset(a, i) + HeadLength + a.entries[i].name + a.entries[i].rest
      BY Layout
    <2>2. i + 1 \in 1..(n + 1) /\ Offset(a, i + 1) \in Nat
      BY <1>1, <1>2
    <2>3. Offset(a, i + 1) <= DirEnd(a)
      <3>1. CASE i = n
        BY <1>2, <1>3, <3>1
      <3>2. CASE i # n
        <4>1. i + 1 \in 1..n
          BY <1>1, <3>2
        <4>2. Offset(a, i + 1) + HeadLength <= DirEnd(a)
          BY <1>2, <1>4, <4>1
        <4> QED
          BY <1>1, <1>3, <2>2, <4>2
      <3> QED
        BY <3>1, <3>2
    <2> QED
      BY <2>1, <2>3
  <1> QED
    BY <1>3, <1>5, <1>6, <1>7

LEMMA RecordFound ==
    ASSUME NEW a, Packable(a), a.cut <= a.comment
    PROVE  EocdOffset(Buffer(a)) = DirEnd(a) /\ Buffer(a).ends[DirEnd(a)] = EndRecord(a)
  <1> DEFINE b == Buffer(a)
             own == DirEnd(a)
             other == DirEnd(a) + EndLength
             found == {o \in DOMAIN b.ends : o >= b.len - MaxComment - EndLength}
             exact == {o \in found : o + EndLength + b.ends[o].comment = b.len}
  <1>1. /\ own \in Nat /\ a.comment \in Nat /\ a.cut \in Nat /\ MaxComment \in Nat
        /\ a.comment <= MaxComment /\ EndLength \in Nat \ {0}
        /\ a.decoy \in BOOLEAN /\ (a.decoy => a.cut = 0 /\ a.comment # EndLength)
    BY DirectoryFits, Listing, Limits DEF Packable, EndLength
  <1>2. b.len = own + EndLength + a.comment - a.cut /\ b.ends = Ends(a)
    BY DEF Buffer, Packed
  <1>3. own + EndLength <= b.len /\ own >= b.len - MaxComment - EndLength
    BY <1>1, <1>2
  <1>4. own # other /\ other # -1 /\ own # -1
    BY <1>1
  <1>5. own \in DOMAIN b.ends /\ b.ends[own] = EndRecord(a)
    BY <1>2, <1>3 DEF Ends, Buffer
  <1>6. own \in found
    BY <1>3, <1>5
  <1>7. DOMAIN b.ends \subseteq {own, other}
    BY <1>2 DEF Ends
  <1>8. CASE ~a.decoy
    <2>1. DOMAIN b.ends \subseteq {own}
      BY <1>2, <1>8 DEF Ends
    <2>2. found = {own} /\ exact \in {{}, {own}}
      BY <1>6, <2>1
    <2>3. EocdOffset(b) = own
      BY <1>1, <2>2, MaxIsLargest DEF EocdOffset
    <2> QED
      BY <1>5, <2>3
  <1>9. CASE a.decoy
    <2>1. a.cut = 0 /\ a.comment # EndLength
      BY <1>1, <1>9
    <2>2. EndRecord(a).comment = a.comment /\ Decoy.comment = 0
      BY DEF EndRecord, Decoy
    <2>3. own \in exact
      BY <1>1, <1>2, <1>5, <1>6, <2>1, <2>2
    <2>4. ASSUME other \in exact
          PROVE  FALSE
      <3>1. b.ends[other] = Decoy /\ other + EndLength + b.ends[other].comment = b.len
        BY <1>2, <1>4, <2>4 DEF Ends
      <3>2. other + EndLength + 0 = own + EndLength + a.comment
        BY <1>1, <1>2, <2>1, <2>2, <3>1
      <3> QED
        BY <1>1, <2>1, <3>2
    <2>5. exact = {own}
      BY <1>7, <2>3, <2>4
    <2>6. EocdOffset(b) = own
      BY <1>1, <2>5, MaxIsLargest DEF EocdOffset
    <2> QED
      BY <1>5, <2>6
  <1> QED
    BY <1>1, <1>8, <1>9

LEMMA RecordMissing ==
    ASSUME NEW a, Packable(a), ~(a.cut <= a.comment)
    PROVE  EocdOffset(Buffer(a)) = -1
  <1>1. /\ DirEnd(a) \in Nat /\ a.comment \in Nat /\ a.cut \in Nat /\ EndLength \in Nat
        /\ a.decoy \in BOOLEAN /\ (a.decoy => a.cut = 0)
    BY DirectoryFits, Listing DEF Packable, EndLength
  <1>2. a.decoy = FALSE
    BY <1>1
  <1>3. ~(DirEnd(a) + EndLength <= Packed(a))
    BY <1>1 DEF Packed
  <1>4. DOMAIN Ends(a) = {}
    BY <1>2, <1>3 DEF Ends
  <1>5. DOMAIN Buffer(a).ends = {}
    BY <1>4 DEF Buffer
  <1> QED
    BY <1>5 DEF EocdOffset

Loop == [at : Int, total : Int, ok : BOOLEAN]

LEMMA VisitTyped ==
    ASSUME NEW a, Packable(a), NEW s \in Loop
    PROVE  Visit(Buffer(a), EndRecord(a), s) \in Loop
  <1> DEFINE b == Buffer(a)
             head == b.heads[s.at]
  <1>1. s.at \in Int /\ s.total \in Int /\ HeadLength \in Int
    BY DEF Loop, HeadLength
  <1>2. [s EXCEPT !.ok = FALSE] \in Loop
    BY DEF Loop
  <1>3. CASE s.at \in DOMAIN b.heads
    <2>1. PICK i \in 1..Len(a.entries) : Offset(a, i) = s.at
      BY <1>3, Listing DEF Buffer
    <2>2. head = a.entries[i]
      BY <2>1, HeadsFound
    <2>3. head.size \in Int /\ head.name \in Int /\ head.rest \in Int
      BY <2>2, Listing
    <2>4. s.at + HeadLength + head.name + head.rest \in Int /\ s.total + head.size \in Int
      BY <1>1, <2>3
    <2> QED
      BY <1>2, <2>4 DEF Visit, Loop
  <1>4. CASE s.at \notin DOMAIN b.heads
    BY <1>2, <1>4 DEF Visit
  <1> QED
    BY <1>3, <1>4

LEMMA RoundsFollow ==
    ASSUME NEW a, Packable(a)
    PROVE  LET rounds == Rounds(Buffer(a), EndRecord(a)) IN
           /\ rounds[0] = [at |-> a.data, total |-> 0, ok |-> TRUE]
           /\ \A i \in 1..Len(a.entries) :
                 rounds[i] = Visit(Buffer(a), EndRecord(a), rounds[i - 1])
  <1> DEFINE n == Len(a.entries)
             b == Buffer(a)
             dir == EndRecord(a)
             base == [at |-> a.data, total |-> 0, ok |-> TRUE]
             d == [x \in Nat \X Loop |-> Visit(b, dir, x[2])]
  <1>1. n \in Nat /\ base \in Loop /\ dir.start = a.data /\ dir.names = n
    BY Listing DEF Loop, EndRecord
  <1>2. d \in [Nat \X Loop -> Loop]
    <2> SUFFICES ASSUME NEW x \in Nat \X Loop
                 PROVE  Visit(b, dir, x[2]) \in Loop
      OBVIOUS
    <2>1. x[2] \in Loop
      OBVIOUS
    <2> QED
      BY <2>1, VisitTyped
  <1>3. PICK f : Follows(f, Loop, base, d, n)
    <2> HIDE DEF d, n, base
    <2> QED
      BY <1>1, <1>2, RecursionExists, Zenon
  <1>4. \A i \in 1..n : f[i] = Visit(b, dir, f[i - 1])
    <2> SUFFICES ASSUME NEW i \in 1..n
                 PROVE  f[i] = Visit(b, dir, f[i - 1])
      OBVIOUS
    <2>1. i \in Nat /\ i - 1 \in 0..n /\ f[i - 1] \in Loop
      BY <1>1, <1>3 DEF Follows
    <2>2. f[i] = d[<<i, f[i - 1]>>]
      BY <1>3 DEF Follows
    <2>3. <<i, f[i - 1]>> \in Nat \X Loop /\ <<i, f[i - 1]>>[2] = f[i - 1]
      BY <2>1
    <2> QED
      BY <2>2, <2>3
  <1> HIDE DEF b, dir, base, d
  <1>5. f = [i \in 0..n |-> IF i = 0 THEN base ELSE Visit(b, dir, f[i - 1])]
    BY <1>1, <1>3, <1>4 DEF Follows
  <1>6. Rounds(b, dir) = [i \in 0..n |-> IF i = 0 THEN base ELSE Visit(b, dir, Rounds(b, dir)[i - 1])]
    BY <1>1, <1>5 DEF Rounds, base
  <1>7. Rounds(b, dir)[0] = base
    BY <1>1, <1>6
  <1>8. \A i \in 1..n : Rounds(b, dir)[i] = Visit(b, dir, Rounds(b, dir)[i - 1])
    BY <1>1, <1>6
  <1> QED
    BY <1>7, <1>8 DEF b, dir, base

\* What the loop knows after i rounds.
Seen(a, i, s) ==
    /\ s \in Loop
    /\ s.ok = (\A j \in 1..i : ~BlockedName(a.entries[j]))
    /\ s.ok => s.at = Offset(a, i + 1) /\ s.total = Sums(Sizes(a))[i]

LEMMA VisitSees ==
    ASSUME NEW a, Packable(a), a.cut <= a.comment, NEW i \in 1..Len(a.entries),
           NEW s, Seen(a, i - 1, s)
    PROVE  Seen(a, i, Visit(Buffer(a), EndRecord(a), s))
  <1> DEFINE b == Buffer(a)
             dir == EndRecord(a)
             e == a.entries[i]
             v == Visit(b, dir, s)
  <1>1. /\ i \in Nat /\ i - 1 \in Nat /\ (i - 1) + 1 = i /\ s \in Loop
        /\ 1..i = 1..(i - 1) \cup {i} /\ Len(a.entries) \in Nat
    BY Listing DEF Seen
  <1>2. v \in Loop
    BY <1>1, VisitTyped
  <1>3. CASE s.ok = FALSE
    <2>1. v = [s EXCEPT !.ok = FALSE] /\ v.ok = FALSE
      BY <1>1, <1>3 DEF Visit, Loop
    <2>2. ~(\A j \in 1..(i - 1) : ~BlockedName(a.entries[j]))
      BY <1>3 DEF Seen
    <2>3. ~(\A j \in 1..i : ~BlockedName(a.entries[j]))
      BY <1>1, <2>2
    <2> QED
      BY <1>2, <2>1, <2>3 DEF Seen
  <1>4. CASE s.ok = TRUE
    <2>1. s.at = Offset(a, i) /\ s.total = Sums(Sizes(a))[i - 1]
      BY <1>1, <1>4 DEF Seen
    <2>2. \A j \in 1..(i - 1) : ~BlockedName(a.entries[j])
      BY <1>4 DEF Seen
    <2>3. s.at \in DOMAIN b.heads /\ b.heads[s.at] = e
      BY <2>1, HeadsFound
    <2>4. /\ Offset(a, i) \in Nat /\ a.data \in Nat /\ HeadLength \in Nat /\ DirEnd(a) \in Nat
          /\ e.name \in Nat /\ e.rest \in Nat /\ e.size \in Nat /\ DirEnd(a) <= b.len /\ b.len \in Int
      <3>1. Offset(a, i) \in Nat
        BY <1>1, Layout
      <3>2. DirEnd(a) <= Packed(a)
        BY DirectoryFits, Listing DEF Packed, EndLength
      <3>3. b.len = Packed(a)
        BY DEF Buffer
      <3> QED
        BY <3>1, <3>2, <3>3, DirectoryFits, Listing DEF HeadLength
    <2>5. Offset(a, i) + HeadLength + e.name + e.rest <= DirEnd(a)
      BY DirectoryFits
    <2>6. dir.start + dir.size = DirEnd(a)
      BY <2>4 DEF EndRecord
    <2>7. /\ s.at + HeadLength <= dir.start + dir.size /\ s.at + HeadLength <= b.len
          /\ s.at + HeadLength + e.name <= b.len
      <3>1. PICK u \in Nat, w \in Nat : u = e.name /\ w = e.rest
        BY <2>4
      <3>2. Offset(a, i) + HeadLength + u + w <= DirEnd(a) /\ u \in Nat /\ w \in Nat
        BY <2>5, <3>1
      <3>3. Offset(a, i) + HeadLength <= DirEnd(a) /\ Offset(a, i) + HeadLength + u <= DirEnd(a)
        BY <2>4, <3>2
      <3>4. Offset(a, i) + HeadLength <= b.len /\ Offset(a, i) + HeadLength + u <= b.len
        BY <2>4, <3>2, <3>3
      <3> QED
        BY <2>1, <2>6, <3>1, <3>3, <3>4
    <2>8. v = [at    |-> s.at + HeadLength + e.name + e.rest,
               total |-> s.total + e.size,
               ok    |-> ~BlockedName(e)]
      BY <1>4, <2>3, <2>7 DEF Visit
    <2>9. v.at = Offset(a, i + 1)
      BY <2>1, <2>8, Layout
    <2>10. v.total = Sums(Sizes(a))[i]
      <3>1. Sums(Sizes(a))[i] = Sums(Sizes(a))[i - 1] + Sizes(a)[i]
        BY Listing, SumsAdd
      <3>2. Sizes(a)[i] = e.size
        BY Listing DEF Sizes
      <3> QED
        BY <2>1, <2>8, <3>1, <3>2
    <2>11. v.ok = (\A j \in 1..i : ~BlockedName(a.entries[j]))
      <3>1. v.ok = ~BlockedName(e)
        BY <2>8
      <3>2. (\A j \in 1..i : ~BlockedName(a.entries[j])) <=> ~BlockedName(e)
        BY <1>1, <2>2
      <3> HIDE DEF v, e
      <3> QED
        BY <3>1, <3>2
    <2> QED
      BY <1>2, <2>9, <2>10, <2>11 DEF Seen
  <1> QED
    BY <1>1, <1>3, <1>4 DEF Loop

LEMMA WalkSees ==
    ASSUME NEW a, Packable(a), a.cut <= a.comment
    PROVE  Seen(a, Len(a.entries), Walk(Buffer(a), EndRecord(a)))
  <1> DEFINE n == Len(a.entries)
             rounds == Rounds(Buffer(a), EndRecord(a))
             S == {i \in Nat : i \in 0..n => Seen(a, i, rounds[i])}
  <1>1. n \in Nat /\ EndRecord(a).names = n
    BY Listing DEF EndRecord
  <1>2. 0 \in S
    <2>1. rounds[0] = [at |-> a.data, total |-> 0, ok |-> TRUE]
      BY RoundsFollow
    <2>2. Offset(a, 0 + 1) = a.data
      BY Layout
    <2>3. Sums(Sizes(a))[0] = 0
      BY Listing, SumsAdd
    <2>4. rounds[0] \in Loop
      BY <2>1, Listing DEF Loop
    <2>5. \A j \in 1..0 : ~BlockedName(a.entries[j])
      OBVIOUS
    <2>6. /\ rounds[0].ok = TRUE /\ rounds[0].at = Offset(a, 0 + 1)
          /\ rounds[0].total = Sums(Sizes(a))[0]
      BY <2>1, <2>2, <2>3
    <2> HIDE DEF rounds
    <2>7. Seen(a, 0, rounds[0])
      BY <2>4, <2>5, <2>6 DEF Seen
    <2> QED
      BY <2>7
  <1>3. ASSUME NEW i \in S
        PROVE  i + 1 \in S
    <2> SUFFICES ASSUME i + 1 \in 0..n
                 PROVE  Seen(a, i + 1, rounds[i + 1])
      OBVIOUS
    <2>1. i \in Nat /\ i \in 0..n /\ i + 1 \in 1..n /\ (i + 1) - 1 = i
      BY <1>1
    <2>2. Seen(a, (i + 1) - 1, rounds[i])
      BY <2>1
    <2>3. rounds[i + 1] = Visit(Buffer(a), EndRecord(a), rounds[i])
      BY <2>1, RoundsFollow
    <2> QED
      BY <2>1, <2>2, <2>3, VisitSees
  <1>4. S = Nat
    <2>1. S \in SUBSET Nat
      OBVIOUS
    <2> HIDE DEF S
    <2> QED
      BY <1>2, <1>3, <2>1, SetInduction
  <1>5. n \in S
    BY <1>1, <1>4
  <1> QED
    BY <1>1, <1>5 DEF Walk

LEMMA WalkJudges ==
    ASSUME NEW a, Packable(a)
    PROVE  CheckZipBomb(Buffer(a)) <=> Harmless(a)
  <1> DEFINE b == Buffer(a)
             n == Len(a.entries)
             total == Sums(Sizes(a))[n]
             walk == Walk(b, EndRecord(a))
  <1>1. b.len = Packed(a) /\ b.len >= EndLength /\ b.magic = "zip" /\ DOMAIN a.entries = 1..n
    BY Listing, DirectoryFits DEF Buffer, Packable, EndLength
  <1>2. CASE a.cut <= a.comment
    <2>1. EocdOffset(b) = DirEnd(a) /\ b.ends[DirEnd(a)] = EndRecord(a) /\ DirEnd(a) # -1
      BY <1>2, RecordFound, DirectoryFits
    <2>2. EndRecord(a).names = n /\ EndRecord(a).start + EndRecord(a).size <= b.len
      <3>1. EndRecord(a).start + EndRecord(a).size = DirEnd(a)
        BY DirectoryFits, Listing DEF EndRecord
      <3>2. DirEnd(a) <= Packed(a)
        BY <1>2, DirectoryFits, Listing DEF Packed, EndLength
      <3> QED
        BY <1>1, <3>1, <3>2 DEF EndRecord
    <2>3. walk.ok = (\A j \in 1..n : ~BlockedName(a.entries[j]))
      BY <1>2, WalkSees DEF Seen
    <2>4. walk.ok => walk.total = total
      BY <1>2, WalkSees DEF Seen
    <2>5. CheckZipBomb(b) <=> /\ n <= MaxNames /\ walk.ok
                              /\ walk.total <= MaxExpanded /\ walk.total <= MaxRatio * b.len
      BY <1>1, <2>1, <2>2, Zenon DEF CheckZipBomb
    <2> QED
      BY <1>1, <1>2, <2>3, <2>4, <2>5, Zenon DEF Harmless
  <1>3. CASE ~(a.cut <= a.comment)
    <2>1. EocdOffset(b) = -1
      BY <1>3, RecordMissing
    <2> QED
      BY <1>1, <1>3, <2>1, Zenon DEF CheckZipBomb, Harmless
  <1> QED
    BY <1>2, <1>3

\* A confirmation has its verdict, and nothing else goes on for it.
JudgeInv ==
    \A r \in Requests : req[r].kind = "confirm" =>
      /\ req[r].pc \in {"answered", "refused"}
      /\ req[r].pc = "answered" <=> CheckZipBomb(Buffer(archive))

LEMMA JudgeNext == Typed /\ JudgeInv /\ [Next]_vars => JudgeInv'
  <1> SUFFICES ASSUME Typed, JudgeInv, [Next]_vars
               PROVE  JudgeInv'
    OBVIOUS
  <1>1. req \in [Requests -> Fit]
    BY DEF Typed
  <1>2. archive' = archive
    BY DEF Next, Tick, Signal, Close, Exit, Limited, Access, Ask, Confirm, Proceed, Work, Prune,
           ListPage, ListFails, Delete, Create, Read, Keep, workload, vars
  <1>3. ASSUME NEW r \in Requests, NEW q, req' = [req EXCEPT ![r] = q],
               q.kind = "confirm" => /\ q.pc \in {"answered", "refused"}
                                     /\ q.pc = "answered" <=> CheckZipBomb(Buffer(archive))
        PROVE  JudgeInv'
    <2>1. \A x \in Requests : req'[x] = q \/ req'[x] = req[x]
      BY <1>1, <1>3
    <2> QED
      BY <1>2, <1>3, <2>1 DEF JudgeInv
  <1>4. ASSUME NEW r \in Requests, ArrivalStep(r)
        PROVE  JudgeInv'
    <2>1. ASSUME NEW kind \in kinds, NEW b \in Buckets, Limited(r, kind, b)
          PROVE  JudgeInv'
      <3>1. Started(kind, b).kind # "confirm"
        BY <2>1, NoRequestTyped DEF Limited, Started, NoRequest
      <3>2. [Started(kind, b) EXCEPT !.pc = "refused", !.start = now].kind # "confirm"
        BY <2>1, NoRequestTyped DEF Limited, Started, NoRequest
      <3> QED
        BY <1>3, <2>1, <3>1, <3>2 DEF Limited
    <2>2. CASE Access(r)
      <3>1. Started("access", NoRequest.bucket).kind # "confirm"
        BY DEF Started, NoRequest
      <3> QED
        BY <1>3, <2>2, <3>1 DEF Access
    <2>3. ASSUME NEW force \in BOOLEAN, Ask(r, force)
          PROVE  JudgeInv'
      <3> DEFINE q == [NoRequest EXCEPT !.kind = "stats", !.start = now, !.forced = force]
      <3>1. /\ [q EXCEPT !.pc = "answered", !.seen = stats.seen].kind # "confirm"
            /\ [q EXCEPT !.pc = "reading"].kind # "confirm"
        BY DEF NoRequest
      <3> QED
        BY <1>3, <2>3, <3>1 DEF Ask
    <2>4. CASE Confirm(r)
      <3> DEFINE q == [NoRequest EXCEPT !.kind = "confirm",
                         !.pc = IF CheckZipBomb(Buffer(archive)) THEN "answered" ELSE "refused"]
      <3>1. q.pc = IF CheckZipBomb(Buffer(archive)) THEN "answered" ELSE "refused"
        BY DEF NoRequest
      <3>2. req' = [req EXCEPT ![r] = q]
        BY <2>4 DEF Confirm
      <3> HIDE DEF q
      <3> QED
        BY <1>3, <3>1, <3>2
    <2> QED
      BY <1>4, <2>1, <2>2, <2>3, <2>4 DEF ArrivalStep
  <1>5. ASSUME NEW r \in Requests, WorkStep(r)
        PROVE  JudgeInv'
    <2>1. req[r].pc \notin {"answered", "refused"}
      BY <1>5 DEF WorkStep, Work, Prune, ListPage, ListFails, Delete, Create, Read, Keep
    <2>2. /\ req'[r].kind # "confirm"
          /\ \A x \in Requests \ {r} : req'[x] = req[x]
      BY <1>5, <2>1, WorkIsNotRefused DEF JudgeInv
    <2> QED
      BY <1>2, <2>2 DEF JudgeInv
  <1>6. CASE Tick \/ Signal \/ Close \/ Exit \/ UNCHANGED vars
    <2>1. req' = req
      BY <1>6 DEF Tick, Signal, Close, Exit, vars
    <2> QED
      BY <1>2, <2>1 DEF JudgeInv
  <1> QED
    BY <1>4, <1>5, <1>6 DEF Next, Proceed, ArrivalStep, WorkStep

\* The walk over the bytes of any archive judges it by what it lists, wherever
\* names, extras and comments put the headers, and refuses it when its end
\* record is not whole (file-validation.ts checkZipBomb).
THEOREM ArchivesAreJudged == Spec => []ArchivesJudged
  <1>1. Init => JudgeInv
    BY NoRequestTyped DEF Init, JudgeInv
  <1>2. Typed /\ JudgeInv => ArchivesJudged
    <2> SUFFICES ASSUME Typed, JudgeInv
                 PROVE  ArchivesJudged
      OBVIOUS
    <2>1. archive \in Archives
      BY TypesInGroups DEF Typed, WorkType
    <2>2. CheckZipBomb(Buffer(archive)) <=> Harmless(archive)
      BY <2>1, ArchivesOK, WalkJudges
    <2> QED
      BY <2>2 DEF JudgeInv, ArchivesJudged
  <1> QED
    BY <1>1, <1>2, JudgeNext, AlwaysTyped, PTL DEF Spec

-----------------------------------------------------------------------------
(* How much a request has before it.                                        *)

Behind(page) == {p \in Pars : p > page}

\* Deletions on this page, and what pages behind it may still bring.
ToDo(todo, page) ==
    Cardinality(todo) + (IF page = 0 THEN 0 ELSE 2 * Cardinality(Behind(page))) + 2

Rank(q) ==
    CASE q.pc = "prune"   -> 2 * Cardinality(Pars) + 3
      [] q.pc = "list"    -> 2 * Cardinality(Behind(q.page)) + 2
      [] q.pc = "delete"  -> ToDo(q.todo, q.page)
      [] q.pc = "reading" -> 2
      [] q.pc \in {"working", "create", "read"}      -> 1
      [] q.pc \in {"idle", "answered", "refused"} -> 0

LEMMA ParsCounted ==
    ASSUME NEW S \in SUBSET Pars
    PROVE  IsFiniteSet(S) /\ Cardinality(S) \in Nat /\ Cardinality(S) <= Cardinality(Pars)
  BY ServerConstantsOK, FS_Subset, FS_CardinalityType DEF ServerConstantsOK

LEMMA DisjointCounted ==
    ASSUME NEW S \in SUBSET Pars, NEW T \in SUBSET S, NEW U \in SUBSET S, T \cap U = {}
    PROVE  Cardinality(T) + Cardinality(U) <= Cardinality(S)
  <1>1. /\ IsFiniteSet(S) /\ IsFiniteSet(T) /\ IsFiniteSet(U) /\ IsFiniteSet(T \cup U)
        /\ Cardinality(T) \in Nat /\ Cardinality(U) \in Nat /\ Cardinality(S) \in Nat
    BY ParsCounted
  <1>2. Cardinality(T \cup U) = Cardinality(T) + Cardinality(U) - Cardinality(T \cap U)
    BY <1>1, FS_Union
  <1>3. Cardinality(T \cap U) = 0
    BY FS_EmptySet
  <1>4. Cardinality(T \cup U) <= Cardinality(S)
    BY <1>1, FS_Subset
  <1> QED
    BY <1>1, <1>2, <1>3, <1>4

LEMMA ToDoCounted ==
    ASSUME NEW todo \in SUBSET Pars, NEW page \in Pars \cup {0}
    PROVE  /\ ToDo(todo, page) \in Nat /\ ToDo(todo, page) >= 2
           /\ Behind(page) \in SUBSET Pars /\ Cardinality(Behind(page)) \in Nat
           /\ page = 0 => ToDo(todo, page) = Cardinality(todo) + 2
           /\ page # 0 => ToDo(todo, page) = Cardinality(todo) + 2 * Cardinality(Behind(page)) + 2
  <1>1. Behind(page) \in SUBSET Pars
    BY DEF Behind
  <1>2. Cardinality(todo) \in Nat /\ Cardinality(Behind(page)) \in Nat
    BY <1>1, ParsCounted
  <1> QED
    BY <1>1, <1>2 DEF ToDo

LEMMA RankByStep ==
    ASSUME NEW q \in Rec
    PROVE  /\ Rank(q) \in Nat
           /\ q.pc \in {"idle", "answered", "refused"} <=> Rank(q) = 0
           /\ q.pc \in {"working", "create", "read"} => Rank(q) = 1
           /\ q.pc = "reading" => Rank(q) = 2
           /\ q.pc = "prune" => Rank(q) = 2 * Cardinality(Pars) + 3
           /\ q.pc = "list" => Rank(q) = 2 * Cardinality(Behind(q.page)) + 2
           /\ q.pc = "delete" => Rank(q) = ToDo(q.todo, q.page)
  <1>1. q.todo \in SUBSET Pars /\ q.page \in Pars \cup {0}
    BY DEF Rec
  <1>2. /\ ToDo(q.todo, q.page) \in Nat /\ ToDo(q.todo, q.page) >= 2
        /\ Cardinality(Behind(q.page)) \in Nat /\ Cardinality(Pars) \in Nat
    BY <1>1, ToDoCounted, ParsCounted
  <1>3. q.pc \in {"prune", "list", "delete", "reading", "working", "create", "read",
                  "idle", "answered", "refused"}
    BY DEF Rec, Steps
  <1>4. CASE q.pc \in {"idle", "answered", "refused"}
    BY <1>4 DEF Rank
  <1>5. CASE q.pc \in {"working", "create", "read", "reading"}
    BY <1>5 DEF Rank
  <1>6. CASE q.pc = "prune"
    <2>1. Rank(q) = 2 * Cardinality(Pars) + 3
      BY <1>6 DEF Rank
    <2> QED
      BY <1>2, <1>6, <2>1
  <1>7. CASE q.pc = "list"
    <2>1. Rank(q) = 2 * Cardinality(Behind(q.page)) + 2
      BY <1>7 DEF Rank
    <2> QED
      BY <1>2, <1>7, <2>1
  <1>8. CASE q.pc = "delete"
    <2>1. Rank(q) = ToDo(q.todo, q.page)
      BY <1>8 DEF Rank
    <2> QED
      BY <1>2, <1>8, <2>1
  <1> QED
    BY <1>3, <1>4, <1>5, <1>6, <1>7, <1>8

LEMMA ResumedRank ==
    ASSUME NEW q \in Rec, NEW todo \in SUBSET Pars, NEW deleted \in 0..PruneMax,
           NEW page \in Pars \cup {0}, now \in Time
    PROVE  LET on == Resumed(q, todo, deleted, page) IN
           /\ Rank(on) <= ToDo(todo, page) /\ Rank(on) \in Nat
           /\ todo = {} /\ page = 0 => Rank(on) = 1
  <1> DEFINE on == Resumed(q, todo, deleted, page)
  <1>1. on \in Rec /\ GoesOn(on, q, todo, deleted, page)
    BY ResumedTyped, ResumedGoesOn DEF Fit
  <1>2. ToDo(todo, page) \in Nat /\ ToDo(todo, page) >= 2 /\ on.todo \in SUBSET Pars
    BY <1>1, ToDoCounted DEF Rec
  <1> HIDE DEF on
  <1>3. Rank(on) \in Nat
    BY <1>1, RankByStep
  <1>4. CASE on.pc = "create"
    <2>1. Rank(on) = 1
      BY <1>1, <1>4, RankByStep
    <2> QED
      BY <1>2, <2>1 DEF on
  <1>5. CASE on.pc = "delete"
    <2>1. on.todo = todo /\ on.page = page /\ todo # {}
      <3>1. on.todo # {}
        BY <1>5, ResumedTyped DEF on, Fit
      <3> QED
        BY <1>1, <1>5, <3>1 DEF GoesOn
    <2>2. Rank(on) = ToDo(todo, page)
      BY <1>1, <1>5, <2>1, RankByStep
    <2> QED
      BY <1>2, <2>1, <2>2 DEF on
  <1>6. CASE on.pc = "list"
    <2>1. todo = {} /\ on.page = page /\ page # 0
      BY <1>1, <1>6 DEF GoesOn
    <2>2. Rank(on) = 2 * Cardinality(Behind(page)) + 2
      BY <1>1, <1>6, <2>1, RankByStep
    <2>3. ToDo(todo, page) = 0 + 2 * Cardinality(Behind(page)) + 2
      BY <2>1, ToDoCounted, FS_EmptySet
    <2>4. Cardinality(Behind(page)) \in Nat
      BY ToDoCounted
    <2> QED
      BY <1>3, <2>1, <2>2, <2>3, <2>4 DEF on
  <1> QED
    BY <1>1, <1>4, <1>5, <1>6 DEF GoesOn

\* What a page holds that is to be deleted and what lies behind it were both
\* behind the page before.
LEMMA PageShrinks ==
    ASSUME NEW old \in Pars \cup {0}, NEW page \in SUBSET Behind(old), NEW todo \in SUBSET page,
           NEW more \in Pars \cup {0}, more # 0 => more \in page /\ \A p \in page : p <= more,
           todo # {} \/ more # 0
    PROVE  ToDo(todo, more) < 2 * Cardinality(Behind(old)) + 2
  <1>1. /\ Behind(old) \in SUBSET Pars /\ todo \in SUBSET Pars /\ Pars \subseteq Nat
        /\ todo \in SUBSET Behind(old) /\ IsFiniteSet(todo) /\ IsFiniteSet(Behind(old))
        /\ Cardinality(todo) \in Nat /\ Cardinality(Behind(old)) \in Nat
        /\ Cardinality(Behind(more)) \in Nat
    BY ToDoCounted, ParsCounted, Numbers DEF Behind
  <1>2. Cardinality(todo) <= Cardinality(Behind(old))
    BY <1>1, FS_Subset
  <1>3. CASE more = 0
    <2>1. Cardinality(todo) # 0
      BY <1>1, <1>3, FS_EmptySet
    <2>2. ToDo(todo, more) = Cardinality(todo) + 2
      BY <1>1, <1>3, ToDoCounted
    <2> QED
      BY <1>1, <1>2, <2>1, <2>2
  <1>4. CASE more # 0
    <2>1. more \in Behind(old) /\ more \notin Behind(more) /\ old \in Nat /\ more \in Nat
      BY <1>1, <1>4 DEF Behind
    <2>2. Behind(more) \subseteq Behind(old)
      <3> SUFFICES ASSUME NEW p \in Behind(more)
                   PROVE  p \in Behind(old)
        OBVIOUS
      <3>1. p \in Pars /\ p \in Nat /\ p > more /\ more > old
        BY <1>1, <2>1 DEF Behind
      <3>2. p > old
        BY <2>1, <3>1
      <3> QED
        BY <3>1, <3>2 DEF Behind
    <2>3. todo \cap Behind(more) = {}
      <3> SUFFICES ASSUME NEW p \in todo, p \in Behind(more)
                   PROVE  FALSE
        OBVIOUS
      <3>1. p \in Nat /\ p <= more /\ p > more
        BY <1>1, <1>4 DEF Behind
      <3> QED
        BY <2>1, <3>1
    <2>4. Cardinality(todo) + Cardinality(Behind(more)) <= Cardinality(Behind(old))
      BY <1>1, <2>2, <2>3, DisjointCounted
    <2>5. Cardinality({more}) + Cardinality(Behind(more)) <= Cardinality(Behind(old))
      <3>1. {more} \in SUBSET Behind(old) /\ Behind(more) \in SUBSET Behind(old)
        BY <2>1, <2>2
      <3> QED
        BY <1>1, <2>1, <3>1, DisjointCounted
    <2>6. Cardinality({more}) = 1
      BY FS_Singleton
    <2>7. ToDo(todo, more) = Cardinality(todo) + 2 * Cardinality(Behind(more)) + 2
      BY <1>1, <1>4, ToDoCounted
    <2> QED
      BY <1>1, <2>4, <2>5, <2>6, <2>7
  <1> QED
    BY <1>3, <1>4

LEMMA WorkRank ==
    ASSUME Typed, NEW r \in Requests, WorkStep(r)
    PROVE  /\ Rank(req'[r]) < Rank(req[r])
           /\ \A x \in Requests \ {r} : req'[x] = req[x]
  <1>1. /\ ReqType /\ now \in Time /\ req[r] \in Rec /\ req[r] \in Fit /\ req \in [Requests -> Fit]
        /\ req[r].todo \in SUBSET Pars /\ req[r].page \in Pars \cup {0}
        /\ req[r].deleted \in 0..PruneMax
    BY TypesInGroups DEF Typed, ClockType, ReqType, Rec
  <1>2. Rank(NoRequest) = 0
    BY NoRequestTyped, RankByStep
  <1>3. CASE Work(r) \/ Create(r)
    <2>1. req'[r] = NoRequest
      BY <1>1, <1>3 DEF Work, Create
    <2>2. Rank(req[r]) = 1
      BY <1>1, <1>3, RankByStep DEF Work, Create
    <2> QED
      BY <1>2, <2>1, <2>2, <1>3, WorkIsNotRefused DEF WorkStep
  <1>4. CASE Prune(r)
    <2> DEFINE q == [req[r] EXCEPT !.start = now, !.due = {p \in There : Expired(p, now)}]
               on == Resumed(q, {}, 0, 0)
    <2>1. q \in Rec /\ [q EXCEPT !.pc = "list"] \in Rec /\ [q EXCEPT !.pc = "list"].page = 0
          /\ [q EXCEPT !.pc = "list"].pc = "list"
      BY <1>1, <1>4 DEF Prune, Rec, Fit, There, Steps
    <2>2. Rank(req[r]) = 2 * Cardinality(Pars) + 3 /\ Cardinality(Pars) \in Nat
      BY <1>1, <1>4, RankByStep, ParsCounted DEF Prune
    <2>3. Rank(on) = 1
      BY <1>1, <2>1, ResumedRank, Numbers
    <2>4. Rank([q EXCEPT !.pc = "list"]) = 2 * Cardinality(Behind(0)) + 2
      BY <2>1, RankByStep
    <2>5. Cardinality(Behind(0)) \in Nat /\ Cardinality(Behind(0)) <= Cardinality(Pars)
      BY ParsCounted DEF Behind
    <2>6. req'[r] = on \/ req'[r] = [q EXCEPT !.pc = "list"]
      BY <1>1, <1>4 DEF Prune
    <2> QED
      BY <2>2, <2>3, <2>4, <2>5, <2>6, <1>4, WorkIsNotRefused DEF WorkStep
  <1>5. CASE ListPage(r)
    <2>1. PICK page \in SUBSET Left(req[r].page), more \in Pars \cup {0} :
            /\ more # 0 => more \in page /\ \A p \in page : p <= more
            /\ req' = [req EXCEPT ![r] = Resumed(req[r], Due(page, req[r].start), req[r].deleted, more)]
      BY <1>5 DEF ListPage
    <2> DEFINE todo == Due(page, req[r].start)
               on == Resumed(req[r], todo, req[r].deleted, more)
    <2>2. /\ page \in SUBSET Behind(req[r].page) /\ todo \in SUBSET page /\ todo \in SUBSET Pars
          /\ req'[r] = on
      BY <1>1, <2>1 DEF Due, Left, There, Behind
    <2>3. /\ Rank(req[r]) = 2 * Cardinality(Behind(req[r].page)) + 2
          /\ Cardinality(Behind(req[r].page)) \in Nat
      BY <1>1, <1>5, RankByStep, ToDoCounted DEF ListPage
    <2> HIDE DEF todo
    <2>4. /\ Rank(on) <= ToDo(todo, more) /\ Rank(on) \in Nat /\ ToDo(todo, more) \in Nat
          /\ todo = {} /\ more = 0 => Rank(on) = 1
      BY <1>1, <2>1, <2>2, ResumedRank, ToDoCounted
    <2> HIDE DEF on
    <2>5. CASE todo # {} \/ more # 0
      <3>1. ToDo(todo, more) < 2 * Cardinality(Behind(req[r].page)) + 2
        BY <1>1, <2>1, <2>2, <2>5, PageShrinks
      <3> QED
        BY <2>2, <2>3, <2>4, <3>1, <1>5, WorkIsNotRefused DEF WorkStep
    <2>6. CASE todo = {} /\ more = 0
      BY <2>2, <2>3, <2>4, <2>6, <1>5, WorkIsNotRefused DEF WorkStep
    <2> QED
      BY <2>5, <2>6
  <1>6. CASE ListFails(r)
    <2> DEFINE q == [req[r] EXCEPT !.missed = TRUE]
               on == Resumed(q, {}, req[r].deleted, 0)
    <2>1. q \in Rec /\ req'[r] = on
      BY <1>1, <1>6 DEF ListFails, Rec
    <2>2. Rank(on) = 1
      BY <1>1, <2>1, ResumedRank
    <2>3. /\ Rank(req[r]) = 2 * Cardinality(Behind(req[r].page)) + 2
          /\ Cardinality(Behind(req[r].page)) \in Nat
      BY <1>1, <1>6, RankByStep, ToDoCounted DEF ListFails
    <2> QED
      BY <2>1, <2>2, <2>3, <1>6, WorkIsNotRefused DEF WorkStep
  <1>7. CASE Delete(r)
    <2> DEFINE p == Min(req[r].todo)
               left == req[r].todo \ {p}
               q == [req[r] EXCEPT !.missed = TRUE]
    <2>1. req[r].todo # {} /\ req[r].deleted + 1 \in 0..PruneMax /\ q \in Rec /\ left \in SUBSET Pars
      <3>1. req[r].todo # {} /\ req[r].deleted < PruneMax
        BY <1>1, <1>7 DEF Delete, Fit
      <3>2. q \in Rec
        BY <1>1 DEF Rec
      <3> QED
        BY <1>1, <3>1, <3>2, Numbers
    <2>2. p \in req[r].todo
      BY <1>1, <2>1, MinIsSmallest
    <2>3. Rank(req[r]) = ToDo(req[r].todo, req[r].page)
      BY <1>1, <1>7, RankByStep DEF Delete
    <2>4. ToDo(left, req[r].page) < ToDo(req[r].todo, req[r].page)
      <3>1. Cardinality(left) = Cardinality(req[r].todo) - 1
        BY <1>1, <2>2, ParsCounted, FS_RemoveElement
      <3>2. Cardinality(req[r].todo) \in Nat /\ Cardinality(Behind(req[r].page)) \in Nat
        BY <1>1, ParsCounted, ToDoCounted
      <3> QED
        BY <3>1, <3>2 DEF ToDo
    <2>5. /\ Rank(Resumed(req[r], left, req[r].deleted + 1, req[r].page)) <= ToDo(left, req[r].page)
          /\ Rank(Resumed(req[r], left, req[r].deleted, req[r].page)) <= ToDo(left, req[r].page)
          /\ Rank(Resumed(q, left, req[r].deleted, req[r].page)) <= ToDo(left, req[r].page)
          /\ Rank(Resumed(req[r], left, req[r].deleted + 1, req[r].page)) \in Nat
          /\ Rank(Resumed(req[r], left, req[r].deleted, req[r].page)) \in Nat
          /\ Rank(Resumed(q, left, req[r].deleted, req[r].page)) \in Nat
      BY <1>1, <2>1, ResumedRank
    <2>6. \/ req'[r] = Resumed(req[r], left, req[r].deleted + 1, req[r].page)
          \/ req'[r] = Resumed(req[r], left, req[r].deleted, req[r].page)
          \/ req'[r] = Resumed(q, left, req[r].deleted, req[r].page)
      BY <1>1, <1>7 DEF Delete
    <2>7. ToDo(left, req[r].page) \in Nat /\ ToDo(req[r].todo, req[r].page) \in Nat
      BY <1>1, <2>1, ToDoCounted
    <2> HIDE DEF left, q, p
    <2>8. Rank(req'[r]) <= ToDo(left, req[r].page) /\ Rank(req'[r]) \in Nat
      BY <2>5, <2>6
    <2> QED
      BY <2>3, <2>4, <2>7, <2>8, <1>7, WorkIsNotRefused DEF WorkStep
  <1>8. CASE Read(r)
    <2>1. /\ req'[r] = [req[r] EXCEPT !.pc = "read", !.seen = now]
          /\ [req[r] EXCEPT !.pc = "read", !.seen = now] \in Rec
          /\ [req[r] EXCEPT !.pc = "read", !.seen = now].pc = "read"
      BY <1>1, <1>8 DEF Read, Rec, Steps
    <2>2. Rank(req'[r]) = 1 /\ Rank(req[r]) = 2
      BY <1>1, <1>8, <2>1, RankByStep DEF Read
    <2> QED
      BY <2>2, <1>8, WorkIsNotRefused DEF WorkStep
  <1>9. CASE Keep(r)
    <2>1. /\ req'[r] = [req[r] EXCEPT !.pc = "answered"]
          /\ [req[r] EXCEPT !.pc = "answered"] \in Rec
          /\ [req[r] EXCEPT !.pc = "answered"].pc = "answered"
      BY <1>1, <1>9 DEF Keep, Rec, Steps
    <2>2. Rank(req'[r]) = 0 /\ Rank(req[r]) = 1
      BY <1>1, <1>9, <2>1, RankByStep DEF Keep
    <2> QED
      BY <2>2, <1>9, WorkIsNotRefused DEF WorkStep
  <1> QED
    BY <1>3, <1>4, <1>5, <1>6, <1>7, <1>8, <1>9 DEF WorkStep

RankBounded ==
    \A r \in Requests : /\ Rank(req[r]) \in 0..(2 * Cardinality(Pars) + 3)
                        /\ InProgress(r) <=> Rank(req[r]) > 0

\* Each change of a request in progress takes it nearer to its end.
Advance == \A r \in Requests : InProgress(r) /\ req'[r] # req[r] => Rank(req'[r]) < Rank(req[r])

LEMMA ArrivalRank ==
    ASSUME Typed, NEW r \in Requests, ArrivalStep(r)
    PROVE  /\ req'[r].pc \notin {"list", "delete"} /\ ~InProgress(r)
           /\ \A x \in Requests \ {r} : req'[x] = req[x]
  <1>1. req \in [Requests -> Fit] /\ NoRequest.pc = "idle"
    BY NoRequestTyped DEF Typed
  <1>2. ASSUME NEW kind \in kinds, NEW b \in Buckets, Limited(r, kind, b)
        PROVE  req'[r].pc \notin {"list", "delete"} /\ \A x \in Requests \ {r} : req'[x] = req[x]
    <2>1. /\ Started(kind, b).pc \in {"working", "prune"}
          /\ [Started(kind, b) EXCEPT !.pc = "refused", !.start = now].pc = "refused"
      BY DEF Started, NoRequest
    <2> QED
      BY <1>1, <1>2, <2>1 DEF Limited
  <1>3. ASSUME Access(r)
        PROVE  req'[r].pc \notin {"list", "delete"} /\ \A x \in Requests \ {r} : req'[x] = req[x]
    <2>1. Started("access", NoRequest.bucket).pc \in {"working", "prune"}
      BY DEF Started, NoRequest
    <2> QED
      BY <1>1, <1>3, <2>1 DEF Access
  <1>4. ASSUME NEW force \in BOOLEAN, Ask(r, force)
        PROVE  req'[r].pc \notin {"list", "delete"} /\ \A x \in Requests \ {r} : req'[x] = req[x]
    <2> DEFINE q == [NoRequest EXCEPT !.kind = "stats", !.start = now, !.forced = force]
    <2>1. /\ [q EXCEPT !.pc = "answered", !.seen = stats.seen].pc = "answered"
          /\ [q EXCEPT !.pc = "reading"].pc = "reading"
      BY DEF NoRequest
    <2> QED
      BY <1>1, <1>4, <2>1 DEF Ask
  <1>5. ASSUME Confirm(r)
        PROVE  req'[r].pc \notin {"list", "delete"} /\ \A x \in Requests \ {r} : req'[x] = req[x]
    <2>1. /\ [NoRequest EXCEPT !.kind = "confirm", !.pc = "answered"].pc = "answered"
          /\ [NoRequest EXCEPT !.kind = "confirm", !.pc = "refused"].pc = "refused"
      BY DEF NoRequest
    <2> QED
      BY <1>1, <1>5, <2>1 DEF Confirm
  <1>6. ~InProgress(r)
    BY DEF ArrivalStep, Limited, Access, Ask, Confirm, Arrives
  <1> QED
    BY <1>2, <1>3, <1>4, <1>5, <1>6 DEF ArrivalStep

LEMMA RankNext ==
    ASSUME Typed, RankBounded, [Next]_vars
    PROVE  RankBounded' /\ Advance
  <1> DEFINE top == 2 * Cardinality(Pars) + 3
  <1>1. Cardinality(Pars) \in Nat /\ top \in Nat /\ top >= 3
    BY ParsCounted
  <1>2. Typed' /\ \A x \in Requests : req[x] \in Rec /\ req'[x] \in Rec
    BY ServerTypedNext DEF Typed, Fit
  <1>3. ASSUME NEW r \in Requests
        PROVE  /\ Rank(req'[r]) \in 0..top
               /\ InProgress(r) /\ req'[r] # req[r] => Rank(req'[r]) < Rank(req[r])
    <2>1. Rank(req[r]) \in 0..top /\ Rank(req'[r]) \in Nat
      BY <1>2, RankByStep DEF RankBounded
    <2>2. ASSUME NEW x \in Requests, ArrivalStep(x)
          PROVE  /\ Rank(req'[r]) \in 0..top
                 /\ InProgress(r) /\ req'[r] # req[r] => Rank(req'[r]) < Rank(req[r])
      <3>1. CASE x = r
        <4>1. req'[r].pc \notin {"list", "delete"} /\ ~InProgress(r)
          BY <2>2, <3>1, ArrivalRank
        <4>2. Rank(req'[r]) \in {0, 1, 2, top}
          BY <1>2, <4>1, RankByStep DEF Rec, Steps
        <4> QED
          BY <1>1, <4>1, <4>2
      <3>2. CASE x # r
        BY <2>1, <2>2, <3>2, ArrivalRank
      <3> QED
        BY <3>1, <3>2
    <2>3. ASSUME NEW x \in Requests, WorkStep(x)
          PROVE  /\ Rank(req'[r]) \in 0..top
                 /\ InProgress(r) /\ req'[r] # req[r] => Rank(req'[r]) < Rank(req[r])
      <3>1. CASE x = r
        BY <1>1, <2>1, <2>3, <3>1, WorkRank
      <3>2. CASE x # r
        BY <2>1, <2>3, <3>2, WorkRank
      <3> QED
        BY <3>1, <3>2
    <2>4. CASE Tick \/ Signal \/ Close \/ Exit \/ UNCHANGED vars
      BY <2>1, <2>4 DEF Tick, Signal, Close, Exit, vars
    <2> QED
      BY <2>2, <2>3, <2>4 DEF Next, Proceed, ArrivalStep, WorkStep
  <1>4. \A r \in Requests : InProgress(r)' <=> Rank(req'[r]) > 0
    BY <1>2, RankByStep DEF InProgress
  <1> QED
    BY <1>3, <1>4 DEF RankBounded, Advance

\* A request that is being served comes to its end within 2 * |Pars| + 3 steps
\* of its own, however many pages its prune lists, whichever calls fail and
\* whatever other requests make and delete between its steps (oci-par-prune.ts
\* beforeParCreate, storage.service.ts getStorageStats).
THEOREM RequestsAdvance == Spec => []RankBounded /\ [][Advance]_vars
  <1>1. Init => RankBounded
    <2>1. NoRequest \in Rec /\ Rank(NoRequest) = 0 /\ Cardinality(Pars) \in Nat
      BY NoRequestTyped, RankByStep, ParsCounted
    <2> QED
      BY <2>1, NoRequestTyped DEF Init, RankBounded, InProgress
  <1>2. Typed /\ RankBounded /\ [Next]_vars => RankBounded' /\ Advance
    BY RankNext
  <1> QED
    BY <1>1, <1>2, AlwaysTyped, PTL DEF Spec
=============================================================================

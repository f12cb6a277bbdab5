---------------------------- MODULE ServerProcess ----------------------------
(***************************************************************************)
(* What the HTTP process keeps in its own memory, between requests that    *)
(* yield at every await: the rate limit's counters, the cached figures of  *)
(* the storage, and its own end.  With it go the pre-authenticated         *)
(* requests (PARs) in the bucket: whoever makes one first prunes the       *)
(* expired ones, page by page, while others do the same.                   *)
(*                                                                         *)
(* A request of kind "limited" is counted and does what other modules say; *)
(* "upload" is counted and makes a PAR; "access" makes one; "stats" asks   *)
(* for the figures; "confirm" has an archive walked through, at one        *)
(* stretch.  Workloads says which kinds come in one behaviour.             *)
(***************************************************************************)
EXTENDS FileValidation, FiniteSets

CONSTANTS
    Requests,    \* requests in progress at once
    Buckets,     \* a path and a user each
    Workloads,   \* sets of kinds
    MaxAttempts, Window, CleanupInterval, \* of the rate limit
    CacheTtl,    \* CACHE_TTL_MS
    Pars,        \* PARs by the order in which they are listed
    OldPars,     \* those an earlier process has made
    PageSize, PruneMax, ParTtl, Grace,
    Archives,    \* archives that are uploaded
    MaxTime,     \* bound: the end of the clock
    MaxFaults    \* bound: calls that fail

ASSUME ServerConstantsOK ==
    /\ Buckets # {} /\ Archives # {} /\ Pars \subseteq Nat \ {0} /\ IsFiniteSet(Pars) /\ OldPars \subseteq Pars
    /\ {MaxAttempts, Window, CacheTtl, PageSize} \subseteq Nat \ {0}
    /\ {CleanupInterval, PruneMax, ParTtl, Grace, MaxTime, MaxFaults} \subseteq Nat

ASSUME ArchivesOK == \A a \in Archives : Packable(a)

VARIABLES
    kinds,       \* the kinds of this behaviour
    archive,     \* what is uploaded in it
    now,
    attempts,    \* count and resetAt by bucket; resetAt = 0: no record
    lastCleanup,
    stats,       \* cachedStats, of which `seen` is when they were read, and cacheExpiresAt
    pars,        \* new, there or gone, and until when it is good
    req,         \* what a request is doing
    process,     \* up, closing, closed or exited
    signals,     \* signals received
    passed,      \* when requests were let through, by bucket
    faults

limiter == <<attempts, lastCleanup, passed>>
ending  == <<process, signals>>
workload == <<kinds, archive>>
vars == <<workload, now, limiter, stats, pars, req, ending, faults>>

Time == 0..MaxTime

\* Of the fields for the properties, due are the PARs a prune should find,
\* missed says that a call of it failed.
NoRequest == [pc |-> "idle", kind |-> "none", bucket |-> CHOOSE b \in Buckets : TRUE,
              start |-> 0, forced |-> FALSE, seen |-> 0,
              page |-> 0, todo |-> {}, deleted |-> 0, until |-> 0, due |-> {}, missed |-> FALSE]

NoRecord == [count |-> 0, resetAt |-> 0]

Init ==
    /\ kinds \in Workloads /\ now = 0
    /\ archive \in IF "confirm" \in kinds THEN Archives ELSE {CHOOSE a \in Archives : TRUE}
    /\ attempts = [b \in Buckets |-> NoRecord] /\ lastCleanup = 0
    /\ stats = [seen |-> 0, until |-> 0]
    /\ pars = [p \in Pars |-> [state |-> IF p \in OldPars THEN "there" ELSE "new", until |-> 0]]
    /\ req = [r \in Requests |-> NoRequest]
    /\ process = "up" /\ signals = 0
    /\ passed = [b \in Buckets |-> <<>>]
    /\ faults = 0

InProgress(r) == req[r].pc \notin {"idle", "answered", "refused"}

Tick ==
    /\ now < MaxTime /\ now' = now + 1
    /\ UNCHANGED <<workload, limiter, stats, pars, req, ending, faults>>

Fail == faults < MaxFaults /\ faults' = faults + 1

Arrives(r, kind) == process = "up" /\ ~InProgress(r) /\ kind \in kinds

-----------------------------------------------------------------------------
(* userRateLimit: no await between reading a record and writing it.         *)

\* Mutation: the cleanup removes the records of windows still open.
SweptAll == IF now - lastCleanup < CleanupInterval THEN attempts ELSE [b \in Buckets |-> NoRecord]

\* cleanupExpired.
Swept ==
    IF now - lastCleanup < CleanupInterval THEN attempts
    ELSE [b \in Buckets |-> IF attempts[b].resetAt <= now THEN NoRecord ELSE attempts[b]]

\* What a request of kind and bucket does when it has been let through.
Started(kind, b) ==
    [NoRequest EXCEPT !.kind = kind, !.bucket = b, !.pc = IF kind = "limited" THEN "working" ELSE "prune"]

Limited(r, kind, b) == LET record == Swept[b] IN
    /\ Arrives(r, kind) /\ kind \in {"limited", "upload"}
    /\ lastCleanup' = IF now - lastCleanup < CleanupInterval THEN lastCleanup ELSE now
    /\ IF record.resetAt > now /\ record.count >= MaxAttempts
         THEN /\ attempts' = Swept /\ UNCHANGED passed
              /\ req' = [req EXCEPT ![r] = [Started(kind, b) EXCEPT
                                          !.pc = "refused", !.start = now]]
         ELSE /\ attempts' = [Swept EXCEPT ![b] =
                   IF record.resetAt > now THEN [record EXCEPT !.count = @ + 1]
                                           ELSE [count |-> 1, resetAt |-> now + Window]]
              /\ passed' = [passed EXCEPT ![b] = Append(@, now)]
              /\ req' = [req EXCEPT ![r] = Started(kind, b)]
    /\ UNCHANGED <<workload, now, stats, pars, ending, faults>>

\* The handler of a limited request ends, one way or the other.
Work(r) ==
    /\ req[r].pc = "working"
    /\ req' = [req EXCEPT ![r] = NoRequest]
    /\ UNCHANGED <<workload, now, limiter, stats, pars, ending, faults>>

-----------------------------------------------------------------------------
(* createUploadPar and createPrivateDocumentUrl, both behind beforeParCreate. *)

Access(r) ==
    /\ Arrives(r, "access")
    /\ req' = [req EXCEPT ![r] = Started("access", NoRequest.bucket)]
    /\ UNCHANGED <<workload, now, limiter, stats, pars, ending, faults>>

There == {p \in Pars : pars[p].state = "there"}
Expired(p, t) == pars[p].until + Grace < t

\* Mutation: deletions go on past the limit.
ResumedOver(q, todo, deleted, page) ==
    LET on == [q EXCEPT !.todo = todo, !.deleted = deleted, !.page = page] IN
    IF todo # {} THEN [on EXCEPT !.pc = "delete"]
    ELSE IF page # 0 THEN [on EXCEPT !.pc = "list"]
    ELSE [on EXCEPT !.pc = "create", !.until = now + ParTtl]

\* Mutation: the page that comes next is not asked for.
ResumedShort(q, todo, deleted, page) ==
    LET on == [q EXCEPT !.todo = todo, !.deleted = deleted, !.page = 0] IN
    IF deleted < PruneMax /\ todo # {} THEN [on EXCEPT !.pc = "delete"]
    ELSE [on EXCEPT !.pc = "create", !.todo = {}, !.until = now + ParTtl]

\* The code from one await to the next, of a prune with the page's items todo,
\* deleted so far, and the last item of the page if there are more (0: no).
Resumed(q, todo, deleted, page) ==
    LET on == [q EXCEPT !.todo = todo, !.deleted = deleted, !.page = page] IN
    IF deleted < PruneMax /\ todo # {} THEN [on EXCEPT !.pc = "delete"]
    ELSE IF deleted < PruneMax /\ page # 0 THEN [on EXCEPT !.pc = "list", !.todo = {}]
    ELSE [on EXCEPT !.pc = "create", !.todo = {}, !.page = 0, !.until = now + ParTtl]

\* getNamespace has answered: pruneExpiredPars reads its clock, once.
Prune(r) ==
    /\ req[r].pc = "prune"
    /\ LET q == [req[r] EXCEPT !.start = now, !.due = {p \in There : Expired(p, now)}] IN
         req' = [req EXCEPT ![r] = IF PruneMax = 0 THEN Resumed(q, {}, 0, 0)
                                   ELSE [q EXCEPT !.pc = "list"]]
    /\ UNCHANGED <<workload, now, limiter, stats, pars, ending, faults>>

Left(page) == {p \in There : p > page}
Due(page, t) == {p \in page : Expired(p, t)}

\* Mutation: from the second page on the same page is asked for again.
ListPageAgain(r) == LET left == Left(req[r].page) IN
    /\ req[r].pc = "list"
    /\ req' = [req EXCEPT ![r] = Resumed(@, Due(left, @.start), @.deleted, IF left = {} THEN 0 ELSE 1)]
    /\ UNCHANGED <<workload, now, limiter, stats, pars, ending, faults>>

\* One page: the next PARs in their order, and the last of them if there are
\* more.
ListPage(r) == LET left == Left(req[r].page) IN
    /\ req[r].pc = "list"
    /\ \E page \in SUBSET left, more \in Pars \cup {0} :
          /\ Cardinality(page) <= PageSize
          /\ \A p \in page, x \in left \ page : p < x
          /\ IF page = left THEN more = 0 ELSE more \in page /\ \A p \in page : p <= more
          /\ req' = [req EXCEPT ![r] = Resumed(@, Due(page, @.start), @.deleted, more)]
    /\ UNCHANGED <<workload, now, limiter, stats, pars, ending, faults>>

\* A listing that fails ends the prune, and nothing else.
ListFails(r) ==
    /\ req[r].pc = "list" /\ Fail
    /\ req' = [req EXCEPT ![r] = Resumed([@ EXCEPT !.missed = TRUE], {}, @.deleted, 0)]
    /\ UNCHANGED <<workload, now, limiter, stats, pars, ending>>

\* One deletion; one of a PAR that another prune has removed meanwhile fails,
\* and a failure is passed over.
Delete(r) == LET p == Min(req[r].todo) IN
    /\ req[r].pc = "delete"
    /\ \/ /\ p \in There
          /\ pars' = [pars EXCEPT ![p].state = "gone"]
          /\ req' = [req EXCEPT ![r] = Resumed(@, @.todo \ {p}, @.deleted + 1, @.page)]
          /\ UNCHANGED faults
       \/ /\ p \notin There
          /\ req' = [req EXCEPT ![r] = Resumed(@, @.todo \ {p}, @.deleted, @.page)]
          /\ UNCHANGED <<pars, faults>>
       \/ /\ Fail
          /\ req' = [req EXCEPT ![r] = Resumed([@ EXCEPT !.missed = TRUE],
                                               @.todo \ {p}, @.deleted, @.page)]
          /\ UNCHANGED pars
    /\ UNCHANGED <<workload, now, limiter, stats, ending>>

\* A call that fails, and one whose answer lacks the URI, may have made a PAR
\* all the same, one for its three tries; nobody has its URL.
Create(r) ==
    /\ req[r].pc = "create"
    /\ \/ \E p \in Pars :
            /\ pars[p].state = "new"
            /\ pars' = [pars EXCEPT ![p] = [state |-> "there", until |-> req[r].until]]
            /\ UNCHANGED faults \/ Fail
       \/ /\ Fail \/ (UNCHANGED faults /\ \A p \in Pars : pars[p].state # "new")
          /\ UNCHANGED pars
    /\ req' = [req EXCEPT ![r] = NoRequest]
    /\ UNCHANGED <<workload, now, limiter, stats, ending>>

-----------------------------------------------------------------------------
(* getStorageStats.                                                         *)

Ask(r, force) ==
    /\ Arrives(r, "stats")
    /\ LET q == [NoRequest EXCEPT !.kind = "stats", !.start = now, !.forced = force] IN
         req' = [req EXCEPT ![r] =
                   IF ~force /\ now < stats.until
                     THEN [q EXCEPT !.pc = "answered", !.seen = stats.seen]
                     ELSE [q EXCEPT !.pc = "reading"]]
    /\ UNCHANGED <<workload, now, limiter, stats, pars, ending, faults>>

\* The database and the collaboration service are read; what cannot be read
\* counts as nothing there, and is kept like any other figure.
Read(r) ==
    /\ req[r].pc = "reading"
    /\ req' = [req EXCEPT ![r].pc = "read", ![r].seen = now]
    /\ UNCHANGED <<workload, now, limiter, stats, pars, ending, faults>>

\* Mutation: the figures live from when they are stored.
KeepLonger(r) ==
    /\ req[r].pc = "read"
    /\ stats' = [seen |-> req[r].seen, until |-> now + CacheTtl]
    /\ req' = [req EXCEPT ![r].pc = "answered"]
    /\ UNCHANGED <<workload, now, limiter, pars, ending, faults>>

\* Whoever ends last leaves its figures, with the end of life that goes with
\* its own beginning.
Keep(r) ==
    /\ req[r].pc = "read"
    /\ stats' = [seen |-> req[r].seen, until |-> req[r].start + CacheTtl]
    /\ req' = [req EXCEPT ![r].pc = "answered"]
    /\ UNCHANGED <<workload, now, limiter, pars, ending, faults>>

\* The archive of a confirmation is walked through before anything else is served.
Confirm(r) ==
    /\ Arrives(r, "confirm")
    /\ req' = [req EXCEPT ![r] = [NoRequest EXCEPT !.kind = "confirm",
                 !.pc = IF CheckZipBomb(Buffer(archive)) THEN "answered" ELSE "refused"]]
    /\ UNCHANGED <<workload, now, limiter, stats, pars, ending, faults>>

-----------------------------------------------------------------------------
(* server.ts: the end of the process.                                       *)

\* The first signal closes the server; a second finds isShuttingDown, or no
\* listener any more if it is the same again, and ends the process.
Signal ==
    /\ process # "exited" /\ signals < 2 /\ signals' = signals + 1
    /\ process' = IF signals = 0 THEN "closing" ELSE "exited"
    /\ UNCHANGED <<workload, now, limiter, stats, pars, req, faults>>

\* Mutation: the server is closed before its requests have been answered.
CloseEarly ==
    /\ process = "closing"
    /\ process' = "closed"
    /\ UNCHANGED <<workload, now, limiter, stats, pars, req, signals, faults>>

\* server.close calls back when the last connection has ended.
Close ==
    /\ process = "closing" /\ \A r \in Requests : ~InProgress(r)
    /\ process' = "closed"
    /\ UNCHANGED <<workload, now, limiter, stats, pars, req, signals, faults>>

\* closeRedisConnections, and the exit.
Exit ==
    /\ process = "closed" /\ process' = "exited"
    /\ UNCHANGED <<workload, now, limiter, stats, pars, req, signals, faults>>

-----------------------------------------------------------------------------

Proceed(r) ==
    /\ process # "exited"
    /\ \/ Work(r) \/ Prune(r) \/ ListPage(r) \/ ListFails(r) \/ Delete(r) \/ Create(r)
       \/ Read(r) \/ Keep(r)

Next ==
    \/ Tick \/ Signal \/ Close \/ Exit
    \/ \E r \in Requests :
          \/ \E kind \in kinds, b \in Buckets : Limited(r, kind, b)
          \/ Access(r) \/ (\E force \in BOOLEAN : Ask(r, force))
          \/ Confirm(r) \/ Proceed(r)

Spec == Init /\ [][Next]_vars

\* Calls answer or fail, and the event loop runs.
Fairness == WF_vars(Close) /\ WF_vars(Exit) /\ \A r \in Requests : WF_vars(Proceed(r))

FairSpec == Spec /\ Fairness
-----------------------------------------------------------------------------

Kinds == {"limited", "upload", "access", "stats", "confirm"}
Steps == {"working", "prune", "list", "delete", "create", "reading", "read"}

\* Every variable has its type; a prune has deleted no more than it may.
TypeOK ==
    /\ kinds \in Workloads /\ archive \in Archives /\ now \in Time /\ lastCleanup \in Time
    /\ attempts \in [Buckets -> [count : Nat, resetAt : Nat]]
    /\ stats \in [seen : Time, until : Nat]
    /\ pars \in [Pars -> [state : {"new", "there", "gone"}, until : Nat]]
    /\ req \in [Requests ->
         [pc : Steps \cup {"idle", "answered", "refused"}, kind : Kinds \cup {"none"},
          bucket : Buckets, start : Time, forced : BOOLEAN, seen : Time, page : Pars \cup {0},
          todo : SUBSET Pars, deleted : 0..PruneMax, until : Nat, due : SUBSET Pars, missed : BOOLEAN]]
    /\ process \in {"up", "closing", "closed", "exited"} /\ signals \in 0..2
    /\ passed \in [Buckets -> Seq(Time)]
    /\ faults \in 0..MaxFaults

\* Windows begin with a request, so that a stretch as long as a window,
\* wherever it begins, sees fewer requests than two windows let through: the first
\* and the last of so many are a window apart.  And nobody is refused who has
\* not used up the limit within one window (rate-limit.middleware.ts, with the
\* cleanup in between).
RateLimited ==
    \A b \in Buckets : LET times == passed[b] IN
      /\ \A i \in DOMAIN times : i + 2 * MaxAttempts - 1 \in DOMAIN times =>
            times[i + 2 * MaxAttempts - 1] - times[i] >= Window
      /\ \A r \in Requests : req[r].pc = "refused" /\ req[r].kind # "confirm" /\ req[r].bucket = b =>
            \E i \in DOMAIN times :
              /\ i + MaxAttempts - 1 \in DOMAIN times
              /\ times[i] > req[r].start - Window /\ times[i + MaxAttempts - 1] <= req[r].start

\* Figures are never older than the cache says, in whichever order refreshes
\* begin and end; who forces a refresh gets figures read after it asked
\* (storage.service.ts getStorageStats).
AnswersAreRecent ==
    \A r \in Requests : req[r].pc = "answered" /\ req[r].kind = "stats" =>
      /\ req[r].start - req[r].seen < CacheTtl
      /\ req[r].forced => req[r].seen >= req[r].start

\* A prune whose calls succeed and which ends below its limit has left nothing
\* that was due when it began, whatever other prunes remove between its pages;
\* and no PAR goes while somebody may still use it (oci-par-prune.ts).
ExpiredAreGone ==
    /\ \A p \in Pars : pars[p].state = "gone" => Expired(p, now)
    /\ \A r \in Requests : req[r].pc = "create" /\ ~req[r].missed /\ req[r].deleted < PruneMax =>
          req[r].due \cap There = {}

\* The walk over the bytes of an archive judges it by what it lists, wherever
\* names, extras, comments and bytes that look like a signature put the
\* headers; one whose end record is missing is refused (file-validation.ts
\* checkZipBomb).
ArchivesJudged ==
    \A r \in Requests : req[r].kind = "confirm" =>
      (req[r].pc = "answered" <=> Harmless(archive))

\* A process asked to stop once answers what it has begun (server.ts shutdown).
StopsBetweenRequests ==
    process = "exited" /\ signals = 1 => \A r \in Requests : ~InProgress(r)

\* Every request is answered, however many pages a prune lists and whichever
\* of its calls fail; and so a stop comes to its end (oci-par-prune.ts
\* beforeParCreate, server.ts shutdown).
RequestsEnd ==
    /\ \A r \in Requests : InProgress(r) ~> ~InProgress(r) \/ process = "exited"
    /\ process = "closing" ~> process = "exited"
=============================================================================

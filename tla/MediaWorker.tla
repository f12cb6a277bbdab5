----------------------------- MODULE MediaWorker -----------------------------
(***************************************************************************)
(* The life of the consolidated worker process: it starts two stream       *)
(* consumers, the dead-letter replayer, the e-mail worker, a health check  *)
(* and the quarantine sweep, and on a signal stops them one after another  *)
(* before it exits.                                                        *)
(*                                                                         *)
(* startMediaWorker and stopMediaWorker are two coroutines of one process, *)
(* and a signal may come while the first still runs; SIGINT and SIGTERM    *)
(* each start a stop of their own.  What the parts do is in the other      *)
(* modules; here a consumer is reading or working, a sweep is running.     *)
(***************************************************************************)
EXTENDS Integers

CONSTANTS
    Signals,     \* SIGINT, SIGTERM
    Concurrency, \* mails sent at once
    MaxChecks,   \* bound: health checks and replay cycles in progress
    MaxFaults    \* bound: times Redis cannot be reached or the process dies

ASSUME WorkerConstantsOK ==
    Concurrency \in Nat /\ MaxChecks \in Nat \ {0} /\ MaxFaults \in Nat

VARIABLES
    main,      \* where startMediaWorker is; gone: there is no process
    stop,      \* where the stop of each signal is, and with which consumer
    stopping,  \* isShuttingDown
    revived,   \* the consumers started after a signal; what starts with the
               \* second of them goes by its name
    ticking,   \* isQuarantineTicking
    sweeping,  \* sweeps in progress
    timer,     \* the sweep's timer is set
    overdue,   \* a stop has given up the sweep in progress
    consumer,  \* the module variable that holds a consumer
    linked,    \* consumerRedis: the consumer's connection
    running,   \* the consumer's flag
    loop,      \* its readLoop
    overran,   \* a stop has given up the loop in progress
    replayer,  \* the dead-letter replayer: its timer and the cycles in progress
    email, jobs, \* the e-mail worker and the mails it is sending
    health,    \* the health check and its file
    pool,      \* the PostgreSQL pool
    held,      \* whose clients it waits for
    redis,     \* Redis can be reached
    faults

sweepVars    == <<ticking, sweeping, timer, overdue>>
consumerVars == <<consumer, linked, running, loop, overran>>
mailVars     == <<email, jobs>>
poolVars     == <<pool, held>>
partVars     == <<consumerVars, replayer, mailVars, health, poolVars>>
envVars      == <<redis, faults>>
vars == <<main, stop, stopping, revived, sweepVars, partVars, envVars>>

Streams == {"commands", "identity"}
Workers == Streams \cup {"sweep", "check"} \* who queries PostgreSQL
NoStop  == [pc |-> "none", stream |-> "identity"]

\* A process has evaluated startMediaWorker up to its first await: the command
\* consumer is made, nothing else is.
FreshStop     == [s \in Signals |-> NoStop]
FreshConsumer == [k \in Streams |-> k = "commands"]
None          == [k \in Streams |-> FALSE]
NoLoop        == [k \in Streams |-> "none"]
FreshHealth(file) ==
    [timer |-> FALSE, checks |-> 0, stopped |-> FALSE, late |-> FALSE, file |-> file]

Idle == [timer |-> FALSE, cycles |-> 0, late |-> FALSE]

Init ==
    /\ main = "commands" /\ stop = FreshStop /\ stopping = FALSE /\ revived = {}
    /\ ticking = FALSE /\ sweeping = 0 /\ timer = FALSE /\ overdue = FALSE
    /\ consumer = FreshConsumer /\ linked = FreshConsumer
    /\ running = None /\ loop = NoLoop /\ overran = None
    /\ replayer = Idle /\ email = "none" /\ jobs = 0
    /\ health = FreshHealth(FALSE) /\ pool = "open" /\ held = {}
    /\ redis = "up" /\ faults = 0

-----------------------------------------------------------------------------
(* The environment.                                                         *)

RedisDown ==
    /\ redis = "up" /\ faults < MaxFaults
    /\ redis' = "down" /\ faults' = faults + 1
    /\ UNCHANGED <<main, stop, stopping, revived, sweepVars, partVars>>

RedisBack ==
    /\ redis = "down" /\ redis' = "up"
    /\ UNCHANGED <<main, stop, stopping, revived, sweepVars, partVars, faults>>

Alive == main # "gone"

\* The process is gone, and with it its memory: here is what the next one
\* finds.  In the same container, so the health file stays.
Die ==
    /\ main' = "gone" /\ stop' = FreshStop /\ stopping' = FALSE /\ revived' = {}
    /\ ticking' = FALSE /\ sweeping' = 0 /\ timer' = FALSE /\ overdue' = FALSE
    /\ consumer' = FreshConsumer /\ linked' = FreshConsumer
    /\ running' = None /\ loop' = NoLoop /\ overran' = None
    /\ replayer' = Idle /\ email' = "none" /\ jobs' = 0
    /\ health' = FreshHealth(health.file) /\ pool' = "open" /\ held' = {}
    /\ UNCHANGED redis

\* A start that fails is one way.
Crash ==
    /\ Alive /\ faults < MaxFaults
    /\ Die /\ faults' = faults + 1

Restart ==
    /\ main = "gone" /\ main' = "commands"
    /\ UNCHANGED <<stop, stopping, revived, sweepVars, partVars, envVars>>

-----------------------------------------------------------------------------
(* startMediaWorker.                                                        *)

\* A consumer's XGROUP has been answered: its loop starts, also when a stop
\* has cleared the flag meanwhile.
StartLoop(k) ==
    /\ running' = [running EXCEPT ![k] = TRUE]
    /\ revived' = IF stopping THEN revived \cup {k} ELSE revived
    /\ loop' = [loop EXCEPT ![k] = "reading"]

StartCommands ==
    /\ main = "commands" /\ redis = "up"
    /\ StartLoop("commands")
    /\ consumer' = [consumer EXCEPT !["identity"] = TRUE]
    /\ linked' = [linked EXCEPT !["identity"] = TRUE]
    /\ main' = "identity"
    /\ UNCHANGED <<stop, stopping, sweepVars, overran, replayer, mailVars, health, poolVars,
                   envVars>>

BeginSweep == ticking' = TRUE /\ sweeping' = sweeping + 1 /\ UNCHANGED <<timer, overdue>>

StartReplayer == replayer' = [replayer EXCEPT !.timer = TRUE]

\* The rest follows without an await, up to the first sweep.
StartIdentity ==
    /\ main = "identity" /\ redis = "up"
    /\ StartLoop("identity")
    /\ StartReplayer
    /\ email' = "open"
    /\ health' = [health EXCEPT !.timer = TRUE, !.checks = 1]
    /\ main' = "sweep"
    /\ IF ticking \/ stopping THEN UNCHANGED sweepVars ELSE BeginSweep
    /\ UNCHANGED <<stop, stopping, consumer, linked, overran, jobs, poolVars, envVars>>

\* The first sweep is over; no other can have begun before the timer.
Started ==
    /\ main = "sweep" /\ sweeping = 0
    /\ timer' = TRUE /\ main' = "up"
    /\ UNCHANGED <<stop, stopping, revived, ticking, sweeping, overdue, partVars, envVars>>

-----------------------------------------------------------------------------
(* The parts at work.                                                       *)

\* Mutation: the flag is not looked at.
TickUnguarded ==
    /\ Alive /\ timer /\ ~stopping
    /\ BeginSweep
    /\ UNCHANGED <<main, stop, stopping, revived, partVars, envVars>>

Tick ==
    /\ Alive /\ timer /\ ~ticking /\ ~stopping
    /\ BeginSweep
    /\ UNCHANGED <<main, stop, stopping, revived, partVars, envVars>>

\* One of the n that w has at work does not wait for a query.
Free(w, n) == n > IF w \in held THEN 1 ELSE 0

SweepEnds ==
    /\ Alive /\ Free("sweep", sweeping)
    /\ sweeping' = sweeping - 1 /\ ticking' = FALSE /\ overdue' = FALSE
    /\ UNCHANGED <<main, stop, stopping, revived, timer, partVars, envVars>>

Goes(k) == loop' = [loop EXCEPT ![k] = "working"] /\ UNCHANGED overran

Top(k) ==
    /\ loop' = [loop EXCEPT ![k] = IF running[k] THEN "reading" ELSE "ended"]
    /\ overran' = [overran EXCEPT ![k] = @ /\ running[k]]

\* XREADGROUP returns with a batch, with none, or fails.
Reads(k) ==
    /\ Alive /\ loop[k] = "reading"
    /\ Top(k) \/ Goes(k)
    /\ UNCHANGED <<main, stop, stopping, revived, sweepVars, consumer, linked, running, replayer,
                   mailVars, health, poolVars, envVars>>

Worked(k) ==
    /\ Alive /\ loop[k] = "working" /\ Free(k, 1)
    /\ Top(k)
    /\ UNCHANGED <<main, stop, stopping, revived, sweepVars, consumer, linked, running, replayer,
                   mailVars, health, poolVars, envVars>>

JobStarts ==
    /\ Alive /\ email = "open" /\ jobs < Concurrency
    /\ jobs' = jobs + 1
    /\ UNCHANGED <<main, stop, stopping, revived, sweepVars, consumerVars, replayer, email, health,
                   poolVars, envVars>>

JobEnds ==
    /\ Alive /\ jobs > 0
    /\ jobs' = jobs - 1
    /\ UNCHANGED <<main, stop, stopping, revived, sweepVars, consumerVars, replayer, email, health,
                   poolVars, envVars>>

InProgress == health.checks + replayer.cycles

Check ==
    /\ Alive /\ health.timer /\ InProgress < MaxChecks
    /\ health' = [health EXCEPT !.checks = @ + 1]
    /\ UNCHANGED <<main, stop, stopping, revived, sweepVars, consumerVars, replayer, mailVars, poolVars,
                   envVars>>

\* The shared connection answers; once it is closed, with an error.
Answering == redis = "up" \/ pool # "open"

\* PING waits for a Redis that cannot be reached, so no report is written.
Report ==
    /\ Alive /\ Free("check", health.checks) /\ Answering
    /\ health' = [health EXCEPT !.checks = @ - 1, !.file = TRUE]
    /\ UNCHANGED <<main, stop, stopping, revived, sweepVars, consumerVars, replayer, mailVars, poolVars,
                   envVars>>

\* Cycles of the replayer may overlap; what one does is in CommandStream.
ReplayTick ==
    /\ Alive /\ replayer.timer /\ InProgress < MaxChecks
    /\ replayer' = [replayer EXCEPT !.cycles = @ + 1]
    /\ UNCHANGED <<main, stop, stopping, revived, sweepVars, consumerVars, mailVars, health, poolVars,
                   envVars>>

ReplayEnds ==
    /\ Alive /\ replayer.cycles > 0 /\ Answering
    /\ replayer' = [replayer EXCEPT !.cycles = @ - 1, !.late = @ /\ replayer.cycles > 1]
    /\ UNCHANGED <<main, stop, stopping, revived, sweepVars, consumerVars, mailVars, health, poolVars,
                   envVars>>

-----------------------------------------------------------------------------
(* stopMediaWorker.                                                         *)

Signal(s) ==
    /\ Alive /\ stop[s].pc = "none"
    /\ stopping' = TRUE /\ timer' = FALSE
    /\ stop' = [stop EXCEPT ![s].pc = "drain"]
    /\ UNCHANGED <<main, revived, ticking, sweeping, overdue, partVars, envVars>>

\* Mutation: the timer of the check goes on.
StopCheckOnce ==
    health' = IF health.timer \/ health.stopped
                THEN [health EXCEPT !.stopped = TRUE, !.file = FALSE,
                                    !.late = @ \/ health.checks > 0]
                ELSE health

\* healthcheck.stop(), where there is one: a check in progress goes on.
StopCheck ==
    health' = IF health.timer \/ health.stopped
                THEN [health EXCEPT !.timer = FALSE, !.stopped = TRUE, !.file = FALSE,
                                    !.late = @ \/ health.checks > 0]
                ELSE health

\* A cycle in progress goes on, and is not waited for.
StopReplayer ==
    replayer' = IF replayer.timer
                  THEN [replayer EXCEPT !.timer = FALSE, !.late = @ \/ replayer.cycles > 0]
                  ELSE replayer

\* The synchronous part of stopping a consumer: clear its flag, or, without
\* one, go on to closing the connection.
StopLoop(s, k) ==
    /\ running' = IF consumer[k] THEN [running EXCEPT ![k] = FALSE] ELSE running
    /\ stop' = [stop EXCEPT ![s] = [pc |-> IF consumer[k] THEN "pill" ELSE "quit",
                                    stream |-> k]]

\* Mutation: the stop waits for the sweep, however long it takes.
DrainToEnd(s) ==
    /\ Alive /\ stop[s].pc = "drain" /\ ~ticking
    /\ StopCheck
    /\ StopReplayer
    /\ StopLoop(s, "identity")
    /\ UNCHANGED <<main, stopping, revived, sweepVars, consumer, linked, loop, overran, mailVars,
                   poolVars, envVars>>

\* The sweep is over, or five seconds are: the health check and the replayer
\* are stopped, and the first consumer is told to.
Drain(s) ==
    /\ Alive /\ stop[s].pc = "drain"
    /\ overdue' = (overdue \/ ticking)
    /\ StopCheck
    /\ StopReplayer
    /\ StopLoop(s, "identity")
    /\ UNCHANGED <<main, stopping, revived, ticking, sweeping, timer, consumer, linked, loop, overran,
                   mailVars, poolVars, envVars>>

To(s, pc) == stop' = [stop EXCEPT ![s].pc = pc]

\* XADD of the pill; a consumer that never had a loop is not waited for.
Pill(s) ==
    /\ Alive /\ stop[s].pc = "pill" /\ redis = "up"
    /\ To(s, "race")
    /\ UNCHANGED <<main, stopping, revived, sweepVars, partVars, envVars>>

\* Mutation: the loop is not waited for.
RaceNotAwaited(s) == LET k == stop[s].stream IN
    /\ Alive /\ stop[s].pc = "race"
    /\ consumer' = [consumer EXCEPT ![k] = FALSE]
    /\ To(s, "quit")
    /\ UNCHANGED <<main, stopping, revived, sweepVars, linked, running, loop, overran, replayer,
                   mailVars, health, poolVars, envVars>>

\* The loop has ended, or three seconds are over.
Race(s) == LET k == stop[s].stream IN
    /\ Alive /\ stop[s].pc = "race"
    /\ overran' = [overran EXCEPT ![k] = @ \/ loop[k] \in {"reading", "working"}]
    /\ consumer' = [consumer EXCEPT ![k] = FALSE]
    /\ To(s, "quit")
    /\ UNCHANGED <<main, stopping, revived, sweepVars, linked, running, loop, replayer, mailVars, health,
                   poolVars, envVars>>

\* The consumer's connection is closed; after the second one the e-mail
\* worker takes no more jobs.
Quit(s) == LET k == stop[s].stream IN
    /\ Alive /\ stop[s].pc = "quit" /\ (linked[k] => redis = "up")
    /\ linked' = [linked EXCEPT ![k] = FALSE]
    /\ \/ k = "identity" /\ StopLoop(s, "commands") /\ UNCHANGED email
       \/ /\ k = "commands" /\ To(s, "email")
          /\ email' = IF email = "open" THEN "closing" ELSE email
          /\ UNCHANGED running
    /\ UNCHANGED <<main, stopping, revived, sweepVars, consumer, loop, overran, replayer, jobs,
                   health, poolVars, envVars>>

\* close() waits for the mails under way.
CloseEmail(s) ==
    /\ Alive /\ stop[s].pc = "email" /\ (email = "closing" => jobs = 0)
    /\ email' = IF email = "closing" THEN "closed" ELSE email
    /\ To(s, "close")
    /\ UNCHANGED <<main, stopping, revived, sweepVars, consumerVars, replayer, jobs, health, poolVars,
                   envVars>>

\* Who may be in a query: a sweep, a handler, a health check.
AtWork == {k \in Streams : loop[k] = "working"}
            \cup {w \in {"sweep"} : sweeping > 0} \cup {w \in {"check"} : health.checks > 0}

\* The shared connections are closed, and the pool is told to end: it gives out
\* no more clients, and waits for those that are out.  A second stop is refused.
CloseRedis(s) ==
    /\ Alive /\ stop[s].pc = "close" /\ redis = "up"
    /\ \/ /\ pool = "open" /\ pool' = "ending" /\ held' \in SUBSET AtWork
          /\ To(s, "pool")
       \/ pool # "open" /\ To(s, "exit") /\ UNCHANGED poolVars
    /\ UNCHANGED <<main, stopping, revived, sweepVars, consumerVars, replayer, mailVars, health, envVars>>

\* PostgreSQL answers a query, and the client comes back.
Return(w) ==
    /\ Alive /\ w \in held /\ held' = held \ {w}
    /\ UNCHANGED <<main, stop, stopping, revived, sweepVars, consumerVars, replayer, mailVars, health,
                   pool, envVars>>

EndPool(s) ==
    /\ Alive /\ stop[s].pc = "pool" /\ held = {}
    /\ pool' = "ended" /\ To(s, "exit")
    /\ UNCHANGED <<main, stopping, revived, sweepVars, consumerVars, replayer, mailVars, health, held,
                   envVars>>

Exit(s) == Alive /\ stop[s].pc = "exit" /\ Die /\ UNCHANGED faults

-----------------------------------------------------------------------------

Stopping(s) ==
    \/ Drain(s) \/ Pill(s) \/ Race(s) \/ Quit(s) \/ CloseEmail(s) \/ CloseRedis(s) \/ EndPool(s)
    \/ Exit(s)

Next ==
    \/ RedisDown \/ RedisBack \/ Crash \/ Restart
    \/ StartCommands \/ StartIdentity \/ Started
    \/ Tick \/ SweepEnds \/ JobStarts \/ JobEnds \/ Check \/ Report \/ ReplayTick \/ ReplayEnds
    \/ \E k \in Streams : Reads(k) \/ Worked(k)
    \/ \E w \in Workers : Return(w)
    \/ \E s \in Signals : Signal(s) \/ Stopping(s)

Spec == Init /\ [][Next]_vars

\* Redis comes back, a mail under way ends (the SMTP client has timeouts), and
\* the event loop turns.  A sweep, a handler and a query may hang.
Fairness ==
    /\ WF_vars(RedisBack) /\ WF_vars(JobEnds)
    /\ \A s \in Signals : WF_vars(Stopping(s))

FairSpec == Spec /\ Fairness
-----------------------------------------------------------------------------

\* Every variable has its type; the e-mail worker keeps to its concurrency.
TypeOK ==
    /\ main \in {"commands", "identity", "sweep", "up", "gone"}
    /\ stop \in [Signals -> [pc : {"none", "drain", "pill", "race", "quit", "email", "close",
                                   "pool", "exit"}, stream : Streams]]
    /\ {stopping, ticking, timer, overdue} \subseteq BOOLEAN /\ revived \subseteq Streams
    /\ sweeping \in Nat
    /\ {consumer, linked, running, overran} \subseteq [Streams -> BOOLEAN]
    /\ loop \in [Streams -> {"none", "reading", "working", "ended"}]
    /\ email \in {"none", "open", "closing", "closed"} /\ jobs \in 0..Concurrency
    /\ health \in [timer : BOOLEAN, checks : 0..MaxChecks, stopped : BOOLEAN, late : BOOLEAN,
                   file : BOOLEAN]
    /\ replayer \in [timer : BOOLEAN, cycles : 0..MaxChecks, late : BOOLEAN]
    /\ pool \in {"open", "ending", "ended"} /\ held \subseteq Workers /\ redis \in {"up", "down"}
    /\ faults \in 0..MaxFaults

\* A process runs one sweep at a time, and the flag by which it and its stops
\* know of a sweep tells the truth, however ticks, the first sweep and signals
\* fall (media.worker.ts tickQuarantine).
SweepsSerial == sweeping <= 1 /\ (ticking <=> sweeping > 0)

\* From the moment the pool is told to end, what still works in the process is
\* what the stop has given up: a sweep after five seconds, a consumer after
\* three, a health check or a replay cycle that was in progress when its timer
\* was cleared.  No mail is under way.  The parts that a start still under way
\* has started after the signal are excepted, part by part; nothing stops them
\* (media.worker.ts startMediaWorker and stopMediaWorker).
PoolOutlivesWork ==
    pool # "open" =>
        /\ sweeping > 0 => overdue
        /\ \A k \in Streams : loop[k] \in {"reading", "working"} => overran[k] \/ k \in revived
        /\ health.checks > 0 => health.late \/ "identity" \in revived
        /\ replayer.cycles > 0 => replayer.late \/ "identity" \in revived
        /\ jobs > 0 => "identity" \in revived

\* After healthcheck.stop() the file is not there, unless a check was in
\* progress: no timer writes it again, also when the signal came while the
\* worker was starting (worker-health.ts stop).
FileStaysGone == health.stopped /\ ~health.late => ~health.file

\* The pool waits for a query that is not answered, and no second signal has
\* come: a query has no timeout (db/pg-config.ts).
PoolHeld == pool = "ending" /\ held # {} /\ \E s \in Signals : stop[s].pc = "none"

\* A signal ends the process, also when a sweep or a handler hangs, unless it
\* hangs in a query when pool.end() comes to wait for it; a second signal ends
\* the process even then (media.worker.ts lines 166-169 and 189,
\* event-consumer.ts stop).
ShutdownEnds == (\E s \in Signals : stop[s].pc # "none") ~> ~Alive \/ PoolHeld
=============================================================================

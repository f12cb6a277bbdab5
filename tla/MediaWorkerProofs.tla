-------------------------- MODULE MediaWorkerProofs --------------------------
(***************************************************************************)
(* Proofs about MediaWorker, for any signals, concurrency and bounds.      *)
(***************************************************************************)
EXTENDS MediaWorker, TLAPS

-----------------------------------------------------------------------------
(* Type correctness, one group of variables at a time.                      *)

StopType ==
    /\ main \in {"commands", "identity", "sweep", "up", "gone"}
    /\ stop \in [Signals -> [pc : {"none", "drain", "pill", "race", "quit", "email", "close",
                                   "pool", "exit"}, stream : Streams]]
    /\ stopping \in BOOLEAN /\ revived \subseteq Streams

FlagType ==
    /\ ticking \in BOOLEAN /\ timer \in BOOLEAN /\ overdue \in BOOLEAN

LoopType ==
    /\ consumer \in [Streams -> BOOLEAN] /\ linked \in [Streams -> BOOLEAN]
    /\ running \in [Streams -> BOOLEAN] /\ overran \in [Streams -> BOOLEAN]
    /\ loop \in [Streams -> {"none", "reading", "working", "ended"}]

RestType ==
    /\ sweeping \in Nat
    /\ email \in {"none", "open", "closing", "closed"} /\ jobs \in 0..Concurrency
    /\ pool \in {"open", "ending", "ended"} /\ held \subseteq Workers /\ redis \in {"up", "down"}
    /\ faults \in 0..MaxFaults

HealthType ==
    health \in [timer : BOOLEAN, checks : 0..MaxChecks, stopped : BOOLEAN, late : BOOLEAN,
                file : BOOLEAN]

ReplayerType == replayer \in [timer : BOOLEAN, cycles : 0..MaxChecks, late : BOOLEAN]

LEMMA TypesInGroups ==
    TypeOK <=> StopType /\ FlagType /\ LoopType /\ RestType /\ HealthType /\ ReplayerType
  BY DEF TypeOK, StopType, FlagType, LoopType, RestType, HealthType, ReplayerType

LEMMA FreshTyped ==
    /\ FreshStop \in [Signals -> [pc : {"none"}, stream : {"identity"}]]
    /\ FreshConsumer \in [Streams -> BOOLEAN] /\ None \in [Streams -> BOOLEAN]
    /\ NoLoop \in [Streams -> {"none"}]
  BY DEF FreshStop, NoStop, FreshConsumer, None, NoLoop, Streams

LEMMA HealthFields ==
    ASSUME HealthType
    PROVE  /\ health.timer \in BOOLEAN /\ health.stopped \in BOOLEAN /\ health.late \in BOOLEAN
           /\ health.file \in BOOLEAN /\ health.checks \in 0..MaxChecks
  BY DEF HealthType

LEMMA ReplayerFields ==
    ASSUME ReplayerType
    PROVE  replayer.timer \in BOOLEAN /\ replayer.late \in BOOLEAN /\ replayer.cycles \in 0..MaxChecks
  BY DEF ReplayerType

\* A record with the fields of health, each of its type.
LEMMA HealthMade ==
    ASSUME NEW t \in BOOLEAN, NEW n \in 0..MaxChecks, NEW o \in BOOLEAN, NEW l \in BOOLEAN,
           NEW f \in BOOLEAN,
           health' = [timer |-> t, checks |-> n, stopped |-> o, late |-> l, file |-> f]
    PROVE  HealthType'
  BY Zenon DEF HealthType

LEMMA ReplayerMade ==
    ASSUME NEW t \in BOOLEAN, NEW n \in 0..MaxChecks, NEW l \in BOOLEAN,
           replayer' = [timer |-> t, cycles |-> n, late |-> l]
    PROVE  ReplayerType'
  BY Zenon DEF ReplayerType

LEMMA IdleTyped == Idle \in [timer : BOOLEAN, cycles : 0..MaxChecks, late : BOOLEAN]
  <1>1. 0 \in 0..MaxChecks
    BY WorkerConstantsOK DEF WorkerConstantsOK
  <1> QED
    BY <1>1, Zenon DEF Idle

LEMMA WorkerTypedInit == Init => TypeOK
  <1> SUFFICES ASSUME Init
               PROVE  TypeOK
    OBVIOUS
  <1>1. StopType /\ FlagType /\ LoopType
    BY FreshTyped DEF Init, StopType, FlagType, LoopType, Streams
  <1>2. RestType
    BY WorkerConstantsOK DEF Init, RestType, WorkerConstantsOK
  <1>3. HealthType
    <2>1. health = [timer |-> FALSE, checks |-> 0, stopped |-> FALSE, late |-> FALSE, file |-> FALSE]
      BY DEF Init, FreshHealth
    <2>2. 0 \in 0..MaxChecks
      BY WorkerConstantsOK DEF WorkerConstantsOK
    <2> QED
      BY <2>1, <2>2, Zenon DEF HealthType
  <1>4. ReplayerType
    BY IdleTyped DEF Init, ReplayerType
  <1> QED
    BY <1>1, <1>2, <1>3, <1>4, TypesInGroups

\* The death of the process leaves every variable typed.
LEMMA DieTyped ==
    ASSUME TypeOK, Die, UNCHANGED faults \/ (faults < MaxFaults /\ faults' = faults + 1)
    PROVE  TypeOK'
  <1>1. StopType /\ FlagType /\ LoopType /\ RestType /\ HealthType /\ ReplayerType
    BY TypesInGroups
  <1>2. StopType' /\ FlagType' /\ LoopType'
    BY FreshTyped DEF Die, StopType, FlagType, LoopType, Streams
  <1>3. RestType'
    BY <1>1, WorkerConstantsOK DEF Die, RestType, WorkerConstantsOK
  <1>4. HealthType'
    <2>1. health' = [timer |-> FALSE, checks |-> 0, stopped |-> FALSE, late |-> FALSE,
                     file |-> health.file]
      BY DEF Die, FreshHealth
    <2>2. 0 \in 0..MaxChecks
      BY WorkerConstantsOK DEF WorkerConstantsOK
    <2> QED
      BY <1>1, <2>1, <2>2, HealthFields, HealthMade
  <1>5. ReplayerType'
    BY IdleTyped DEF Die, ReplayerType
  <1> QED
    BY <1>2, <1>3, <1>4, <1>5
       DEF TypeOK, StopType, FlagType, LoopType, RestType, HealthType, ReplayerType

LEMMA CheckingTyped ==
    ASSUME HealthType, ReplayerType, Check \/ Report \/ StartIdentity \/ StopCheck
    PROVE  HealthType'
  <1>1. health.checks \in 0..MaxChecks
    BY HealthFields
  <1>2. CASE Check
    <2>1. health' = [timer |-> health.timer, checks |-> health.checks + 1,
                     stopped |-> health.stopped, late |-> health.late, file |-> health.file]
      BY <1>2 DEF Check, HealthType
    <2>2. health.checks + 1 \in 0..MaxChecks
      BY <1>1, <1>2, ReplayerFields, WorkerConstantsOK DEF Check, InProgress, WorkerConstantsOK
    <2> QED
      BY <2>1, <2>2, HealthFields, HealthMade
  <1>3. CASE Report
    <2>1. health' = [timer |-> health.timer, checks |-> health.checks - 1,
                     stopped |-> health.stopped, late |-> health.late, file |-> TRUE]
      BY <1>3 DEF Report, HealthType
    <2>2. health.checks - 1 \in 0..MaxChecks
      BY <1>1, <1>3, WorkerConstantsOK DEF Report, Free, WorkerConstantsOK
    <2> QED
      BY <2>1, <2>2, HealthFields, HealthMade
  <1>4. CASE StartIdentity
    <2>1. health' = [timer |-> TRUE, checks |-> 1, stopped |-> health.stopped,
                     late |-> health.late, file |-> health.file]
      BY <1>4 DEF StartIdentity, HealthType
    <2>2. 1 \in 0..MaxChecks
      BY WorkerConstantsOK DEF WorkerConstantsOK
    <2> QED
      BY <2>1, <2>2, HealthFields, HealthMade
  <1>5. CASE StopCheck
    <2>1. CASE UNCHANGED health
      BY <2>1 DEF HealthType
    <2>2. CASE health' = [health EXCEPT !.timer = FALSE, !.stopped = TRUE, !.file = FALSE,
                                        !.late = @ \/ health.checks > 0]
      <3>1. health' = [timer |-> FALSE, checks |-> health.checks, stopped |-> TRUE,
                       late |-> (health.late \/ health.checks > 0), file |-> FALSE]
        BY <2>2 DEF HealthType
      <3>2. (health.late \/ health.checks > 0) \in BOOLEAN
        BY Zenon
      <3> QED
        BY <1>1, <3>1, <3>2, HealthMade
    <2> QED
      BY <1>5, <2>1, <2>2 DEF StopCheck
  <1> QED
    BY <1>2, <1>3, <1>4, <1>5

LEMMA ReplayingTyped ==
    ASSUME HealthType, ReplayerType, ReplayTick \/ ReplayEnds \/ StartReplayer \/ StopReplayer
    PROVE  ReplayerType'
  <1>1. replayer.cycles \in 0..MaxChecks /\ health.checks \in 0..MaxChecks
    BY ReplayerFields, HealthFields
  <1>2. CASE ReplayTick
    <2>1. replayer' = [timer |-> replayer.timer, cycles |-> replayer.cycles + 1,
                       late |-> replayer.late]
      BY <1>2 DEF ReplayTick, ReplayerType
    <2>2. replayer.cycles + 1 \in 0..MaxChecks
      BY <1>1, <1>2, WorkerConstantsOK DEF ReplayTick, InProgress, WorkerConstantsOK
    <2> QED
      BY <2>1, <2>2, ReplayerFields, ReplayerMade
  <1>3. CASE ReplayEnds
    <2>1. replayer' = [timer |-> replayer.timer, cycles |-> replayer.cycles - 1,
                       late |-> (replayer.late /\ replayer.cycles > 1)]
      BY <1>3 DEF ReplayEnds, ReplayerType
    <2>2. replayer.cycles - 1 \in 0..MaxChecks
      BY <1>1, <1>3, WorkerConstantsOK DEF ReplayEnds, WorkerConstantsOK
    <2>3. (replayer.late /\ replayer.cycles > 1) \in BOOLEAN
      BY Zenon
    <2> QED
      BY <2>1, <2>2, <2>3, ReplayerFields, ReplayerMade
  <1>4. CASE StartReplayer
    <2>1. replayer' = [timer |-> TRUE, cycles |-> replayer.cycles, late |-> replayer.late]
      BY <1>4 DEF StartReplayer, ReplayerType
    <2> QED
      BY <1>1, <2>1, ReplayerFields, ReplayerMade
  <1>5. CASE StopReplayer
    <2>1. CASE UNCHANGED replayer
      BY <2>1 DEF ReplayerType
    <2>2. CASE replayer' = [replayer EXCEPT !.timer = FALSE, !.late = @ \/ replayer.cycles > 0]
      <3>1. replayer' = [timer |-> FALSE, cycles |-> replayer.cycles,
                         late |-> (replayer.late \/ replayer.cycles > 0)]
        BY <2>2 DEF ReplayerType
      <3>2. (replayer.late \/ replayer.cycles > 0) \in BOOLEAN
        BY Zenon
      <3> QED
        BY <1>1, <3>1, <3>2, ReplayerMade
    <2> QED
      BY <1>5, <2>1, <2>2 DEF StopReplayer
  <1> QED
    BY <1>2, <1>3, <1>4, <1>5

LEMMA WorkerTypedStep == TypeOK /\ [Next]_vars => TypeOK'
  <1> SUFFICES ASSUME TypeOK, [Next]_vars
               PROVE  TypeOK'
    OBVIOUS
  <1>1. StopType /\ FlagType /\ LoopType /\ RestType /\ HealthType /\ ReplayerType
    BY TypesInGroups
  <1>2. ASSUME StopType', FlagType', LoopType', RestType', HealthType', ReplayerType'
        PROVE  TypeOK'
    BY <1>2 DEF TypeOK, StopType, FlagType, LoopType, RestType, HealthType, ReplayerType
  <1>3. ASSUME UNCHANGED <<stop, stopping, revived>>, main' \in {"commands", "identity", "sweep", "up"}
               \/ UNCHANGED main
        PROVE  StopType'
    BY <1>1, <1>3 DEF StopType
  <1>4. ASSUME UNCHANGED <<ticking, timer, overdue>>
        PROVE  FlagType'
    BY <1>1, <1>4 DEF FlagType
  <1>5. ASSUME UNCHANGED consumerVars
        PROVE  LoopType'
    BY <1>1, <1>5 DEF LoopType, consumerVars
  <1>6. ASSUME UNCHANGED <<sweeping, mailVars, poolVars, envVars>>
        PROVE  RestType'
    BY <1>1, <1>6 DEF RestType, mailVars, poolVars, envVars
  <1>7. ASSUME UNCHANGED health
        PROVE  HealthType'
    BY <1>1, <1>7 DEF HealthType
  <1>24. ASSUME UNCHANGED replayer
         PROVE  ReplayerType'
    BY <1>1, <1>24 DEF ReplayerType
  <1>8. CASE UNCHANGED vars
    BY <1>2, <1>3, <1>4, <1>5, <1>6, <1>7, <1>8, <1>24 DEF vars, partVars, sweepVars
  <1>9. CASE RedisDown \/ RedisBack
    <2>1. RestType'
      BY <1>1, <1>9, WorkerConstantsOK
         DEF RestType, RedisDown, RedisBack, sweepVars, partVars, mailVars, poolVars, WorkerConstantsOK
    <2> QED
      BY <1>2, <1>3, <1>4, <1>5, <1>7, <1>9, <1>24, <2>1 DEF RedisDown, RedisBack, partVars, sweepVars
  <1>10. CASE Crash
    BY <1>10, DieTyped DEF Crash
  <1>11. CASE Restart \/ Started
    <2>1. FlagType'
      BY <1>1, <1>11 DEF FlagType, Restart, Started, sweepVars, partVars
    <2> QED
      BY <1>2, <1>3, <1>5, <1>6, <1>7, <1>11, <1>24, <2>1 DEF Restart, Started, partVars, sweepVars
  <1>12. CASE StartCommands
    <2>1. LoopType'
      BY <1>1, <1>12 DEF LoopType, StartCommands, StartLoop, Streams
    <2>2. StopType'
      BY <1>1, <1>12 DEF StopType, StartCommands, StartLoop, Streams
    <2> QED
      BY <1>2, <1>4, <1>6, <1>7, <1>12, <1>24, <2>1, <2>2 DEF StartCommands, sweepVars
  <1>13. CASE StartIdentity
    <2>1. LoopType'
      BY <1>1, <1>13 DEF LoopType, StartIdentity, StartLoop, Streams
    <2>2. UNCHANGED sweepVars \/ BeginSweep
      BY <1>13 DEF StartIdentity
    <2>3. FlagType'
      BY <1>1, <1>13, <2>2 DEF FlagType, BeginSweep, StartIdentity, sweepVars
    <2>4. RestType'
      <3>1. sweeping' \in Nat
        BY <1>1, <2>2 DEF RestType, BeginSweep, sweepVars
      <3> QED
        BY <1>1, <1>13, <3>1 DEF RestType, StartIdentity, poolVars, envVars
    <2>5. StopType'
      BY <1>1, <1>13 DEF StopType, StartIdentity, StartLoop, Streams
    <2>6. HealthType' /\ ReplayerType'
      BY <1>1, <1>13, CheckingTyped, ReplayingTyped DEF StartIdentity
    <2> QED
      BY <1>2, <2>1, <2>3, <2>4, <2>5, <2>6
  <1>14. CASE Tick \/ SweepEnds
    <2>1. FlagType'
      BY <1>1, <1>14 DEF FlagType, Tick, SweepEnds, BeginSweep, partVars
    <2>2. RestType'
      BY <1>1, <1>14 DEF RestType, Tick, SweepEnds, BeginSweep, Free, partVars, mailVars, poolVars, envVars
    <2> QED
      BY <1>2, <1>3, <1>5, <1>7, <1>14, <1>24, <2>1, <2>2 DEF Tick, SweepEnds, partVars
  <1>15. CASE JobStarts \/ JobEnds
    <2>1. RestType'
      BY <1>1, <1>15, WorkerConstantsOK
         DEF RestType, JobStarts, JobEnds, sweepVars, poolVars, envVars, WorkerConstantsOK
    <2> QED
      BY <1>2, <1>3, <1>4, <1>5, <1>7, <1>15, <1>24, <2>1 DEF JobStarts, JobEnds, sweepVars
  <1>16. CASE Check \/ Report
    <2>1. HealthType'
      BY <1>1, <1>16, CheckingTyped
    <2> QED
      BY <1>2, <1>3, <1>4, <1>5, <1>6, <1>16, <1>24, <2>1 DEF Check, Report, sweepVars
  <1>25. CASE ReplayTick \/ ReplayEnds
    <2>1. ReplayerType'
      BY <1>1, <1>25, ReplayingTyped
    <2> QED
      BY <1>2, <1>3, <1>4, <1>5, <1>6, <1>7, <1>25, <2>1 DEF ReplayTick, ReplayEnds, sweepVars
  <1>17. ASSUME NEW k \in Streams, Reads(k) \/ Worked(k)
         PROVE  TypeOK'
    <2>1. LoopType'
      BY <1>1, <1>17 DEF LoopType, Reads, Worked, Top, Goes
    <2> QED
      BY <1>2, <1>3, <1>4, <1>6, <1>7, <1>17, <1>24, <2>1 DEF Reads, Worked, sweepVars
  <1>18. ASSUME NEW s \in Signals, Signal(s)
         PROVE  TypeOK'
    <2>1. StopType' /\ FlagType'
      BY <1>1, <1>18 DEF StopType, FlagType, Signal, partVars
    <2> QED
      BY <1>2, <1>5, <1>6, <1>7, <1>18, <1>24, <2>1 DEF Signal, partVars
  <1>19. ASSUME NEW s \in Signals, Drain(s)
         PROVE  TypeOK'
    <2>1. FlagType'
      BY <1>1, <1>19 DEF FlagType, Drain
    <2>2. StopType' /\ LoopType'
      BY <1>1, <1>19 DEF StopType, LoopType, Drain, StopLoop, Streams
    <2>3. HealthType' /\ ReplayerType' /\ RestType'
      BY <1>1, <1>6, <1>19, CheckingTyped, ReplayingTyped DEF Drain
    <2> QED
      BY <1>2, <2>1, <2>2, <2>3
  <1>20. ASSUME NEW s \in Signals, Pill(s) \/ CloseEmail(s) \/ CloseRedis(s) \/ EndPool(s)
         PROVE  TypeOK'
    <2>1. StopType'
      BY <1>1, <1>20 DEF StopType, Pill, CloseEmail, CloseRedis, EndPool, To
    <2>2. AtWork \subseteq Workers
      BY DEF AtWork, Workers
    <2>3. RestType'
      BY <1>1, <1>20, <2>2
         DEF RestType, Pill, CloseEmail, CloseRedis, EndPool, partVars, sweepVars, mailVars, poolVars,
             envVars
    <2> QED
      BY <1>2, <1>4, <1>5, <1>7, <1>20, <1>24, <2>1, <2>3
         DEF Pill, CloseEmail, CloseRedis, EndPool, partVars, sweepVars
  <1>21. ASSUME NEW s \in Signals, Race(s)
         PROVE  TypeOK'
    <2>1. StopType'
      BY <1>1, <1>21 DEF StopType, Race, To
    <2>2. LoopType'
      BY <1>1, <1>21 DEF StopType, LoopType, Race
    <2> QED
      BY <1>2, <1>4, <1>6, <1>7, <1>21, <1>24, <2>1, <2>2 DEF Race, sweepVars
  <1>22. ASSUME NEW s \in Signals, Quit(s)
         PROVE  TypeOK'
    <2>1. StopType'
      BY <1>1, <1>22 DEF StopType, Quit, StopLoop, To, Streams
    <2>2. LoopType'
      BY <1>1, <1>22 DEF LoopType, Quit, StopLoop, Streams
    <2>3. RestType'
      BY <1>1, <1>22 DEF RestType, Quit, sweepVars, poolVars, envVars
    <2> QED
      BY <1>2, <1>4, <1>7, <1>22, <1>24, <2>1, <2>2, <2>3 DEF Quit, sweepVars
  <1>23. ASSUME NEW s \in Signals, Exit(s)
         PROVE  TypeOK'
    BY <1>23, DieTyped DEF Exit
  <1>26. ASSUME NEW w \in Workers, Return(w)
         PROVE  TypeOK'
    <2>1. RestType'
      BY <1>1, <1>26 DEF RestType, Return, sweepVars, mailVars, envVars
    <2> QED
      BY <1>2, <1>3, <1>4, <1>5, <1>7, <1>24, <1>26, <2>1 DEF Return, sweepVars
  <1> QED
    BY <1>8, <1>9, <1>10, <1>11, <1>12, <1>13, <1>14, <1>15, <1>16, <1>17, <1>18, <1>19, <1>20,
       <1>21, <1>22, <1>23, <1>25, <1>26 DEF Next, Stopping

\* Every variable has its type, and never more mails are sent at once than the
\* e-mail worker's concurrency (media.worker.ts initEmailWorker).
THEOREM WorkerTypeCorrect == Spec => []TypeOK
  BY WorkerTypedInit, WorkerTypedStep, PTL DEF Spec

-----------------------------------------------------------------------------
(* One sweep at a time.                                                     *)

\* The flag and the number of sweeps go together.
SweepInv == (ticking /\ sweeping = 1) \/ (~ticking /\ sweeping = 0)

LEMMA SweepStep == SweepInv /\ [Next]_vars => SweepInv'
  <1> SUFFICES ASSUME SweepInv, [Next]_vars
               PROVE  SweepInv'
    OBVIOUS
  <1>1. ASSUME UNCHANGED <<ticking, sweeping>>
        PROVE  SweepInv'
    BY <1>1 DEF SweepInv
  <1>2. ASSUME ~ticking, BeginSweep
        PROVE  SweepInv'
    BY <1>2 DEF SweepInv, BeginSweep
  <1>3. ASSUME Die
        PROVE  SweepInv'
    BY <1>3 DEF SweepInv, Die
  <1>4. CASE UNCHANGED vars
    BY <1>1, <1>4 DEF vars, sweepVars
  <1>5. CASE RedisDown \/ RedisBack \/ Restart \/ StartCommands \/ Started
    BY <1>1, <1>5 DEF RedisDown, RedisBack, Restart, StartCommands, Started, sweepVars
  <1>6. CASE Crash \/ \E s \in Signals : Exit(s)
    BY <1>3, <1>6 DEF Crash, Exit
  <1>7. CASE StartIdentity
    BY <1>1, <1>2, <1>7 DEF StartIdentity, sweepVars
  <1>8. CASE Tick
    BY <1>2, <1>8 DEF Tick
  <1>9. CASE SweepEnds
    BY <1>9 DEF SweepEnds, SweepInv, Free
  <1>10. CASE \/ JobStarts \/ JobEnds \/ Check \/ Report \/ ReplayTick \/ ReplayEnds
              \/ (\E k \in Streams : Reads(k) \/ Worked(k)) \/ \E w \in Workers : Return(w)
    BY <1>1, <1>10 DEF JobStarts, JobEnds, Check, Report, ReplayTick, ReplayEnds, Reads, Worked, Return,
                       sweepVars
  <1>11. CASE \E s \in Signals : \/ Signal(s) \/ Drain(s) \/ Pill(s) \/ Race(s) \/ Quit(s)
                                 \/ CloseEmail(s) \/ CloseRedis(s) \/ EndPool(s)
    BY <1>1, <1>11 DEF Signal, Drain, Pill, Race, Quit, CloseEmail, CloseRedis, EndPool, sweepVars
  <1> QED
    BY <1>4, <1>5, <1>6, <1>7, <1>8, <1>9, <1>10, <1>11 DEF Next, Stopping

\* Ticks, the first sweep, signals and restarts never make two sweeps of one
\* process overlap (media.worker.ts tickQuarantine).
THEOREM SweepsAreSerial == Spec => []SweepsSerial
  <1>1. Init => SweepInv
    BY DEF Init, SweepInv
  <1>2. SweepInv => SweepsSerial
    BY DEF SweepInv, SweepsSerial
  <1> QED
    BY <1>1, <1>2, SweepStep, PTL DEF Spec

-----------------------------------------------------------------------------
(* The health file.  A health check that has been stopped has no timer, and *)
(* unless one was in progress no check will write the file again; there is  *)
(* no health check before the start has got that far.                       *)

HealthInv ==
    /\ main \in {"commands", "identity", "gone"} => ~health.timer /\ ~health.stopped
    /\ health.stopped => ~health.timer
    /\ health.stopped /\ ~health.late => health.checks = 0 /\ ~health.file

LEMMA HealthStep == TypeOK /\ HealthInv /\ [Next]_vars => HealthInv'
  <1> SUFFICES ASSUME TypeOK, HealthInv, [Next]_vars
               PROVE  HealthInv'
    OBVIOUS
  <1>1. HealthType /\ health.checks \in 0..MaxChecks
    BY TypesInGroups, HealthFields
  <1>2. ASSUME UNCHANGED health, main' \in {"commands", "identity", "gone"} =>
                                     main \in {"commands", "identity", "gone"}
        PROVE  HealthInv'
    BY <1>2 DEF HealthInv
  <1>3. ASSUME Die
        PROVE  HealthInv'
    BY <1>3 DEF HealthInv, Die, FreshHealth
  <1>4. CASE UNCHANGED vars
    BY <1>2, <1>4 DEF vars, partVars
  <1>5. CASE RedisDown \/ RedisBack \/ Restart \/ StartCommands \/ Started \/ Tick \/ SweepEnds
             \/ JobStarts \/ JobEnds \/ ReplayTick \/ ReplayEnds
             \/ (\E k \in Streams : Reads(k) \/ Worked(k)) \/ \E w \in Workers : Return(w)
    BY <1>2, <1>5 DEF RedisDown, RedisBack, Restart, StartCommands, Started, Tick, SweepEnds,
                      JobStarts, JobEnds, ReplayTick, ReplayEnds, Reads, Worked, Return, partVars
  <1>6. CASE Crash \/ \E s \in Signals : Exit(s)
    BY <1>3, <1>6 DEF Crash, Exit
  <1>7. CASE \E s \in Signals : \/ Signal(s) \/ Pill(s) \/ Race(s) \/ Quit(s)
                                \/ CloseEmail(s) \/ CloseRedis(s) \/ EndPool(s)
    BY <1>2, <1>7 DEF Signal, Pill, Race, Quit, CloseEmail, CloseRedis, EndPool, partVars
  <1>8. CASE StartIdentity
    <2>1. main = "identity" /\ main' = "sweep" /\ health' = [health EXCEPT !.timer = TRUE, !.checks = 1]
      BY <1>8 DEF StartIdentity
    <2>2. ~health.stopped /\ health'.stopped = health.stopped
      BY <1>1, <2>1 DEF HealthInv, HealthType
    <2> QED
      BY <2>1, <2>2 DEF HealthInv
  <1>9. CASE Check
    <2>1. health.timer /\ health'.stopped = health.stopped /\ health'.timer = health.timer /\ main' = main
      BY <1>1, <1>9 DEF Check, HealthType
    <2> QED
      BY <2>1 DEF HealthInv
  <1>10. CASE Report
    <2>1. /\ health.checks # 0 /\ main' = main
          /\ health'.stopped = health.stopped /\ health'.timer = health.timer
          /\ health'.late = health.late
      BY <1>1, <1>10 DEF Report, Free, HealthType
    <2> QED
      BY <2>1 DEF HealthInv
  <1>11. ASSUME NEW s \in Signals, Drain(s)
         PROVE  HealthInv'
    <2>1. main' = main
      BY <1>11 DEF Drain
    <2>2. CASE UNCHANGED health
      BY <1>2, <2>1, <2>2
    <2>3. CASE /\ health.timer \/ health.stopped
               /\ health' = [health EXCEPT !.timer = FALSE, !.stopped = TRUE, !.file = FALSE,
                                           !.late = @ \/ health.checks > 0]
      <3>1. /\ ~health'.timer /\ health'.stopped /\ ~health'.file
            /\ health'.checks = health.checks
            /\ health'.late = (health.late \/ health.checks > 0)
        BY <1>1, <2>3 DEF HealthType
      <3>2. ~(health.checks > 0) => health.checks = 0
        BY <1>1
      <3>3. main \notin {"commands", "identity", "gone"}
        BY <2>3 DEF HealthInv
      <3>4. ~health'.late => health'.checks = 0
        BY <3>1, <3>2
      <3> QED
        BY <2>1, <3>1, <3>3, <3>4 DEF HealthInv
    <2> QED
      BY <1>11, <2>2, <2>3 DEF Drain, StopCheck
  <1> QED
    BY <1>4, <1>5, <1>6, <1>7, <1>8, <1>9, <1>10, <1>11 DEF Next, Stopping

\* Once the health check is stopped its file does not come back, unless a
\* check was in progress (worker-health.ts stop).
THEOREM HealthFileStaysGone == Spec => []FileStaysGone
  <1>1. Init => HealthInv
    BY DEF Init, HealthInv, FreshHealth
  <1>2. TypeOK /\ HealthInv /\ [Next]_vars => TypeOK' /\ HealthInv'
    BY WorkerTypedStep, HealthStep
  <1>3. HealthInv => FileStaysGone
    BY DEF HealthInv, FileStaysGone
  <1> QED
    BY <1>1, <1>2, <1>3, WorkerTypedInit, PTL DEF Spec

-----------------------------------------------------------------------------
(* The pool is the last to go.  A stop that is past a part knows that the   *)
(* part is at rest, or that the part has been given up, or that a start     *)
(* under way has started it after the signal.                               *)

Busy(k) == loop[k] \in {"reading", "working"}

Settled(k) == Busy(k) => overran[k] \/ k \in revived

\* The stop of s is past the sweep, a consumer, the taking of jobs, the mails.
PastSweep(s) == stop[s].pc \notin {"none", "drain"}
Past(s, k) ==
    IF k = "identity"
      THEN PastSweep(s) /\ (stop[s].stream = "commands" \/ stop[s].pc \notin {"pill", "race"})
      ELSE PastSweep(s) /\ stop[s].stream = "commands" /\ stop[s].pc \notin {"pill", "race"}
PastIntake(s) == stop[s].pc \in {"email", "close", "pool", "exit"}
PastMails(s) == stop[s].pc \in {"close", "pool", "exit"}

SignalSeen == \A s \in Signals : stop[s].pc # "none" => stopping

\* A consumer that is about to be started is there, or a stop came before it.
ToBeStarted ==
    ~stopping => /\ main \in {"gone", "commands"} => consumer["commands"]
                 /\ main = "identity" => consumer["identity"]

SweepGivenUp == \A s \in Signals : PastSweep(s) => (sweeping = 0 \/ overdue)

LoopsGivenUp ==
    /\ \A k \in Streams : ~consumer[k] => Settled(k)
    /\ \A s \in Signals, k \in Streams : Past(s, k) => Settled(k)
    /\ \A s \in Signals : PastIntake(s) => stop[s].stream = "commands"

MailsDone ==
    /\ email \in {"none", "closed"} => jobs = 0
    /\ \A s \in Signals : PastIntake(s) => email # "open" \/ "identity" \in revived
    /\ \A s \in Signals : PastMails(s) => jobs = 0 \/ "identity" \in revived

PoolGone == pool # "open" => \E s \in Signals : stop[s].pc \in {"pool", "exit"}

WorkInv == SignalSeen /\ ToBeStarted /\ SweepGivenUp /\ LoopsGivenUp /\ MailsDone /\ PoolGone

\* A new process, and one that has died, has nothing to stop.
LEMMA FreshWork ==
    ASSUME stop = FreshStop, main \in {"commands", "gone"}, consumer = FreshConsumer, loop = NoLoop,
           jobs = 0, pool = "open"
    PROVE  WorkInv
  <1>1. \A s \in Signals : stop[s].pc = "none"
    BY DEF FreshStop, NoStop
  <1>2. \A k \in Streams : Settled(k)
    BY DEF Settled, Busy, NoLoop
  <1> QED
    BY <1>1, <1>2 DEF WorkInv, SignalSeen, ToBeStarted, FreshConsumer, Streams, SweepGivenUp, LoopsGivenUp, MailsDone, PoolGone,
                      PastSweep, Past, PastIntake, PastMails

LEMMA DeadWork == ASSUME Die PROVE WorkInv'
  <1>1. \A s \in Signals : stop'[s].pc = "none"
    BY DEF Die, FreshStop, NoStop
  <1>2. \A k \in Streams : Settled(k)'
    BY DEF Die, Settled, Busy, NoLoop
  <1>3. jobs' = 0 /\ pool' = "open" /\ main' = "gone" /\ consumer'["commands"]
    BY DEF Die, FreshConsumer, Streams
  <1> QED
    BY <1>1, <1>2, <1>3 DEF WorkInv, SignalSeen, ToBeStarted, SweepGivenUp, LoopsGivenUp, MailsDone, PoolGone,
                            PastSweep, Past, PastIntake, PastMails

\* The steps of the start and of the parts leave the stops where they are.
LEMMA StartWork ==
    ASSUME TypeOK, WorkInv, StartCommands \/ StartIdentity \/ Restart \/ Started
    PROVE  WorkInv'
  <1>1. UNCHANGED <<stop, stopping, overran, jobs, pool>>
    BY DEF StartCommands, StartIdentity, Restart, Started, partVars, consumerVars, mailVars, poolVars
  <1>2. LoopType /\ FlagType /\ RestType /\ StopType
    BY TypesInGroups
  <1>3. revived \subseteq revived'
    BY DEF StartCommands, StartIdentity, Restart, Started, StartLoop
  <1>4. SignalSeen'
    BY <1>1 DEF SignalSeen, WorkInv
  <1>5. PoolGone'
    BY <1>1 DEF PoolGone, WorkInv
  <1>6. ToBeStarted'
    BY <1>1, <1>2 DEF StartCommands, StartIdentity, Restart, Started, ToBeStarted, WorkInv, partVars,
                      consumerVars, LoopType, Streams
  <1>7. SweepGivenUp'
    <2>1. CASE UNCHANGED <<sweeping, overdue>>
      BY <1>1, <2>1 DEF SweepGivenUp, WorkInv, PastSweep
    <2>2. CASE ~stopping
      BY <1>1, <2>2 DEF SweepGivenUp, SignalSeen, WorkInv, PastSweep
    <2> QED
      BY <2>1, <2>2 DEF StartCommands, StartIdentity, Restart, Started, sweepVars
  <1>8. LoopsGivenUp'
    <2>1. ASSUME NEW k \in Streams, Settled(k), stopping
          PROVE  Settled(k)'
      <3>1. CASE loop'[k] = loop[k]
        BY <1>1, <1>3, <2>1, <3>1 DEF Settled, Busy
      <3>2. CASE k \in revived'
        BY <3>2 DEF Settled
      <3> QED
        BY <1>2, <2>1, <3>1, <3>2
           DEF StartCommands, StartIdentity, Restart, Started, StartLoop, LoopType, partVars,
               consumerVars
    <2>2. ASSUME NEW k \in Streams, ~consumer'[k], ~stopping
          PROVE  Settled(k)'
      <3>1. CASE UNCHANGED <<consumer, loop>>
        BY <1>1, <1>3, <2>2, <3>1 DEF WorkInv, LoopsGivenUp, Settled, Busy
      <3>2. CASE StartCommands
        <4>1. k # "commands" /\ ~consumer[k] /\ loop'[k] = loop[k]
          BY <1>2, <2>2, <3>2 DEF StartCommands, StartLoop, LoopType, Streams, WorkInv, ToBeStarted
        <4> QED
          BY <1>1, <1>3, <4>1 DEF WorkInv, LoopsGivenUp, Settled, Busy
      <3>3. CASE StartIdentity
        <4>1. k # "identity" /\ ~consumer[k] /\ loop'[k] = loop[k]
          BY <1>2, <2>2, <3>3 DEF StartIdentity, StartLoop, LoopType, Streams, WorkInv, ToBeStarted
        <4> QED
          BY <1>1, <1>3, <4>1 DEF WorkInv, LoopsGivenUp, Settled, Busy
      <3> QED
        BY <3>1, <3>2, <3>3 DEF Restart, Started, partVars, consumerVars
    <2>3. ASSUME NEW k \in Streams, ~consumer'[k], stopping
          PROVE  Settled(k)'
      <3>1. CASE consumer[k]
        BY <1>2, <2>3, <3>1
           DEF StartCommands, StartIdentity, Restart, Started, LoopType, partVars, consumerVars
      <3>2. CASE ~consumer[k]
        BY <2>1, <2>3, <3>2 DEF WorkInv, LoopsGivenUp
      <3> QED
        BY <3>1, <3>2
    <2>4. ASSUME NEW s \in Signals, NEW k \in Streams, Past(s, k)'
          PROVE  Settled(k)'
      <3>1. Past(s, k) /\ stopping
        BY <1>1, <2>4 DEF Past, PastSweep, SignalSeen, WorkInv
      <3> QED
        BY <2>1, <3>1 DEF WorkInv, LoopsGivenUp
    <2>5. \A s \in Signals : PastIntake(s)' => stop'[s].stream = "commands"
      BY <1>1 DEF PastIntake, LoopsGivenUp, WorkInv
    <2> QED
      BY <2>2, <2>3, <2>4, <2>5 DEF LoopsGivenUp
  <1>9. MailsDone'
    <2>1. CASE UNCHANGED email
      BY <1>1, <1>3, <2>1 DEF MailsDone, WorkInv, PastIntake, PastMails
    <2>2. CASE StartIdentity
      <3>1. email' = "open" /\ (stopping => "identity" \in revived')
        BY <2>2 DEF StartIdentity, StartLoop
      <3>2. \A s \in Signals : PastIntake(s)' \/ PastMails(s)' => stopping
        BY <1>1 DEF PastIntake, PastMails, SignalSeen, WorkInv
      <3> QED
        BY <1>1, <3>1, <3>2 DEF MailsDone, WorkInv
    <2> QED
      BY <2>1, <2>2 DEF StartCommands, Restart, Started, partVars, mailVars
  <1> QED
    BY <1>4, <1>5, <1>6, <1>7, <1>8, <1>9 DEF WorkInv

LEMMA PartWork ==
    ASSUME TypeOK, SweepInv, WorkInv,
           \/ RedisDown \/ RedisBack \/ Tick \/ SweepEnds \/ JobStarts \/ JobEnds \/ Check \/ Report
           \/ ReplayTick \/ ReplayEnds
           \/ (\E k \in Streams : Reads(k) \/ Worked(k)) \/ \E w \in Workers : Return(w)
    PROVE  WorkInv'
  <1>1. UNCHANGED <<main, stop, stopping, revived, consumer, email, pool>>
    BY DEF RedisDown, RedisBack, Tick, SweepEnds, JobStarts, JobEnds, Check, Report, ReplayTick,
           ReplayEnds, Reads, Worked, Return, partVars, consumerVars, mailVars, poolVars
  <1>2. LoopType /\ RestType
    BY TypesInGroups
  <1>3. SignalSeen' /\ ToBeStarted' /\ PoolGone'
    BY <1>1 DEF SignalSeen, ToBeStarted, PoolGone, WorkInv
  <1>4. SweepGivenUp'
    <2>1. CASE UNCHANGED <<sweeping, overdue>>
      BY <1>1, <2>1 DEF SweepGivenUp, WorkInv, PastSweep
    <2>2. CASE Tick
      BY <1>1, <2>2 DEF Tick, SweepGivenUp, SignalSeen, WorkInv, PastSweep
    <2>3. CASE SweepEnds
      <3>1. sweeping' = 0
        BY <2>3 DEF SweepEnds, SweepInv, Free
      <3> QED
        BY <3>1 DEF SweepGivenUp
    <2> QED
      BY <2>1, <2>2, <2>3 DEF RedisDown, RedisBack, JobStarts, JobEnds, Check, Report, ReplayTick,
                              ReplayEnds, Reads, Worked, Return, sweepVars
  <1>5. LoopsGivenUp'
    <2>1. ASSUME NEW k \in Streams, Settled(k)
          PROVE  Settled(k)'
      <3>1. CASE UNCHANGED <<loop, overran>>
        BY <1>1, <2>1, <3>1 DEF Settled, Busy
      <3>2. ASSUME NEW m \in Streams, Reads(m) \/ Worked(m)
            PROVE  Settled(k)'
        BY <1>1, <1>2, <2>1, <3>2 DEF Reads, Worked, Top, Goes, Settled, Busy, LoopType
      <3> QED
        BY <3>1, <3>2 DEF RedisDown, RedisBack, Tick, SweepEnds, JobStarts, JobEnds, Check, Report,
                          ReplayTick, ReplayEnds, Return, partVars, consumerVars
    <2>2. \A s \in Signals, k \in Streams : Past(s, k)' <=> Past(s, k)
      BY <1>1 DEF Past, PastSweep
    <2> QED
      BY <1>1, <2>1, <2>2 DEF LoopsGivenUp, WorkInv, PastIntake
  <1>6. MailsDone'
    <2>1. CASE UNCHANGED jobs
      BY <1>1, <2>1 DEF MailsDone, WorkInv, PastIntake, PastMails
    <2>2. CASE JobStarts
      BY <1>1, <2>2 DEF JobStarts, MailsDone, WorkInv, PastIntake, PastMails
    <2>3. CASE JobEnds
      <3>1. jobs # 0
        BY <1>2, <2>3 DEF JobEnds, RestType
      <3> QED
        BY <1>1, <2>3, <3>1 DEF JobEnds, MailsDone, WorkInv, PastIntake, PastMails
    <2> QED
      BY <2>1, <2>2, <2>3 DEF RedisDown, RedisBack, Tick, SweepEnds, Check, Report, ReplayTick,
                              ReplayEnds, Reads, Worked, Return, partVars, mailVars
  <1> QED
    BY <1>3, <1>4, <1>5, <1>6 DEF WorkInv

\* The steps of a stop up to the consumers.
LEMMA StopWork ==
    ASSUME TypeOK, WorkInv, SweepInv, NEW s \in Signals, Signal(s) \/ Drain(s) \/ Pill(s) \/ Race(s)
    PROVE  WorkInv'
  <1>1. UNCHANGED <<main, sweeping, loop, revived, mailVars, pool>>
    BY DEF Signal, Drain, Pill, Race, partVars, consumerVars, sweepVars, poolVars
  <1>2. StopType /\ LoopType /\ FlagType
    BY TypesInGroups
  <1>3. \A t \in Signals \ {s} : stop'[t] = stop[t]
    BY <1>2 DEF Signal, Drain, Pill, Race, StopLoop, To, StopType
  <1>4. stop'[s].pc \in {"drain", "pill", "race", "quit"} /\ stopping'
    BY <1>2 DEF Signal, Drain, Pill, Race, StopLoop, To, StopType, SignalSeen, WorkInv, partVars
  <1>5. SignalSeen'
    BY <1>4 DEF SignalSeen
  <1>6. ToBeStarted'
    BY <1>4 DEF ToBeStarted
  <1>7. SweepGivenUp'
    <2>1. overdue => overdue'
      BY DEF Signal, Drain, Pill, Race, sweepVars
    <2>2. ASSUME PastSweep(s)'
          PROVE  sweeping' = 0 \/ overdue'
      <3>1. CASE Drain(s)
        BY <1>1, <3>1 DEF Drain, SweepInv
      <3>2. CASE Pill(s) \/ Race(s)
        BY <1>1, <2>1, <3>2 DEF Pill, Race, SweepGivenUp, PastSweep, WorkInv
      <3>3. CASE Signal(s)
        BY <1>2, <2>2, <3>3 DEF Signal, PastSweep, StopType
      <3> QED
        BY <3>1, <3>2, <3>3
    <2>3. ASSUME NEW t \in Signals, t # s, PastSweep(t)'
          PROVE  sweeping' = 0 \/ overdue'
      BY <1>1, <1>3, <2>1, <2>3 DEF SweepGivenUp, PastSweep, WorkInv
    <2> QED
      BY <2>2, <2>3 DEF SweepGivenUp
  <1>8. LoopsGivenUp'
    <2>1. ASSUME NEW k \in Streams, Settled(k)
          PROVE  Settled(k)'
      <3>1. overran[k] => overran'[k]
        BY <1>2 DEF Signal, Drain, Pill, Race, LoopType, StopType, partVars, consumerVars
      <3> QED
        BY <1>1, <1>4, <2>1, <3>1 DEF Settled, Busy
    <2>2. ASSUME NEW k \in Streams, Past(s, k)' \/ (~consumer'[k] /\ consumer[k])
          PROVE  Settled(k)'
      <3>1. CASE Signal(s)
        BY <1>2, <2>2, <3>1 DEF Signal, Past, PastSweep, StopType, partVars, consumerVars
      <3>2. CASE Drain(s)
        <4>1. UNCHANGED consumer
          BY <3>2 DEF Drain
        <4>2. k = "identity" /\ ~consumer[k]
          BY <1>2, <2>2, <3>2, <4>1 DEF Drain, StopLoop, Past, PastSweep, StopType, Streams
        <4> QED
          BY <2>1, <4>2 DEF WorkInv, LoopsGivenUp
      <3>3. CASE Pill(s)
        <4>1. UNCHANGED consumer /\ stop' = [stop EXCEPT ![s].pc = "race"] /\ stop[s].pc = "pill"
          BY <3>3 DEF Pill, To, partVars, consumerVars
        <4>2. Past(s, k)
          BY <1>2, <2>2, <4>1 DEF Past, PastSweep, StopType
        <4> QED
          BY <2>1, <4>2 DEF WorkInv, LoopsGivenUp
      <3>4. CASE Race(s)
        <4>1. CASE k = stop[s].stream
          <5>1. Busy(k) => overran'[k]
            BY <1>2, <3>4, <4>1 DEF Race, LoopType, Busy
          <5> QED
            BY <1>1, <5>1 DEF Settled, Busy
        <4>2. CASE k # stop[s].stream
          <5>1. consumer'[k] = consumer[k] /\ stop' = [stop EXCEPT ![s].pc = "quit"]
                /\ stop[s].pc = "race"
            BY <1>2, <3>4, <4>2 DEF Race, To, LoopType, StopType
          <5>2. Past(s, k)
            BY <1>2, <2>2, <4>2, <5>1 DEF Past, PastSweep, StopType, Streams
          <5> QED
            BY <2>1, <5>2 DEF WorkInv, LoopsGivenUp
        <4> QED
          BY <4>1, <4>2
      <3> QED
        BY <3>1, <3>2, <3>3, <3>4
    <2>3. ASSUME NEW t \in Signals, t # s, NEW k \in Streams, Past(t, k)'
          PROVE  Settled(k)'
      BY <1>3, <2>1, <2>3 DEF Past, PastSweep, LoopsGivenUp, WorkInv
    <2>4. \A t \in Signals : PastIntake(t)' => stop'[t].stream = "commands"
      BY <1>3, <1>4 DEF PastIntake, LoopsGivenUp, WorkInv
    <2>5. \A k \in Streams : ~consumer'[k] => Settled(k)'
      BY <2>1, <2>2 DEF LoopsGivenUp, WorkInv
    <2> QED
      BY <2>2, <2>3, <2>4, <2>5 DEF LoopsGivenUp
  <1>9. MailsDone'
    BY <1>1, <1>3, <1>4 DEF MailsDone, WorkInv, PastIntake, PastMails, mailVars
  <1>10. PoolGone'
    <2>1. stop[s].pc \notin {"pool", "exit"}
      BY DEF Signal, Drain, Pill, Race
    <2> QED
      BY <1>1, <1>3, <2>1 DEF PoolGone, WorkInv
  <1> QED
    BY <1>5, <1>6, <1>7, <1>8, <1>9, <1>10 DEF WorkInv

\* The steps of a stop from the first connection it closes.
LEMMA CloseWork ==
    ASSUME TypeOK, WorkInv, NEW s \in Signals,
           Quit(s) \/ CloseEmail(s) \/ CloseRedis(s) \/ EndPool(s)
    PROVE  WorkInv'
  <1>1. UNCHANGED <<main, stopping, revived, sweeping, overdue, consumer, loop, overran, jobs>>
    BY DEF Quit, CloseEmail, CloseRedis, EndPool, consumerVars, sweepVars, mailVars
  <1>2. StopType /\ LoopType /\ RestType
    BY TypesInGroups
  <1>3. \A t \in Signals \ {s} : stop'[t] = stop[t]
    BY <1>2 DEF Quit, CloseEmail, CloseRedis, EndPool, StopLoop, To, StopType
  <1>4. stop[s].pc \in {"quit", "email", "close", "pool"}
    BY DEF Quit, CloseEmail, CloseRedis, EndPool
  <1>5. SignalSeen' /\ ToBeStarted'
    BY <1>1, <1>3, <1>4 DEF SignalSeen, ToBeStarted, WorkInv
  <1>6. SweepGivenUp'
    BY <1>1, <1>3, <1>4 DEF SweepGivenUp, PastSweep, WorkInv
  <1>7. \A k \in Streams : Settled(k) => Settled(k)'
    BY <1>1 DEF Settled, Busy
  <1>8. LoopsGivenUp'
    <2>1. ASSUME NEW t \in Signals, t # s, NEW k \in Streams, Past(t, k)'
          PROVE  Settled(k)'
      BY <1>3, <1>7, <2>1 DEF Past, PastSweep, LoopsGivenUp, WorkInv
    <2>2. ASSUME NEW k \in Streams, Past(s, k)'
          PROVE  Settled(k)'
      <3>1. CASE CloseEmail(s) \/ CloseRedis(s) \/ EndPool(s)
        <4>1. stop[s].stream = "commands" /\ stop[s].pc \in {"email", "close", "pool"}
          BY <3>1 DEF CloseEmail, CloseRedis, EndPool, LoopsGivenUp, WorkInv, PastIntake
        <4>2. Past(s, k)
          BY <4>1 DEF Past, PastSweep
        <4> QED
          BY <1>7, <4>2 DEF LoopsGivenUp, WorkInv
      <3>2. CASE Quit(s)
        <4>1. CASE stop[s].stream = "commands"
          BY <1>4, <1>7, <3>2, <4>1 DEF Quit, Past, PastSweep, LoopsGivenUp, WorkInv
        <4>2. CASE stop[s].stream = "identity"
          <5>1. stop'[s] = [pc |-> IF consumer["commands"] THEN "pill" ELSE "quit",
                            stream |-> "commands"]
            BY <1>2, <3>2, <4>2 DEF Quit, StopLoop, StopType
          <5>2. CASE k = "identity"
            <6>1. Past(s, k)
              BY <3>2, <5>2 DEF Quit, Past, PastSweep
            <6> QED
              BY <1>7, <6>1 DEF LoopsGivenUp, WorkInv
          <5>3. CASE k = "commands"
            <6>1. ~consumer[k]
              BY <2>2, <5>1, <5>3 DEF Past
            <6> QED
              BY <1>7, <6>1 DEF LoopsGivenUp, WorkInv
          <5> QED
            BY <5>2, <5>3 DEF Streams
        <4> QED
          BY <1>2, <4>1, <4>2 DEF StopType, Streams
      <3> QED
        BY <3>1, <3>2
    <2>3. PastIntake(s)' => stop'[s].stream = "commands"
      <3>1. CASE CloseEmail(s) \/ CloseRedis(s) \/ EndPool(s)
        BY <1>2, <3>1 DEF CloseEmail, CloseRedis, EndPool, To, StopType, LoopsGivenUp, WorkInv, PastIntake
      <3>2. CASE Quit(s)
        BY <1>2, <3>2 DEF Quit, StopLoop, To, StopType, PastIntake
      <3> QED
        BY <3>1, <3>2
    <2>4. \A t \in Signals : PastIntake(t)' => stop'[t].stream = "commands"
      BY <1>3, <2>3 DEF PastIntake, LoopsGivenUp, WorkInv
    <2>5. \A k \in Streams : ~consumer'[k] => Settled(k)'
      BY <1>1, <1>7 DEF LoopsGivenUp, WorkInv
    <2> QED
      BY <2>1, <2>2, <2>4, <2>5 DEF LoopsGivenUp
  <1>9. MailsDone'
    <2>1. CASE Quit(s)
      <3>1. stop'[s].pc \in {"pill", "quit"} \/ (stop'[s].pc = "email" /\ email' # "open")
        BY <1>2, <2>1 DEF Quit, StopLoop, To, StopType
      <3>2. email' = email \/ (email = "open" /\ email' = "closing")
        BY <2>1 DEF Quit
      <3> QED
        BY <1>1, <1>3, <3>1, <3>2 DEF MailsDone, WorkInv, PastIntake, PastMails
    <2>2. CASE CloseEmail(s)
      <3>1. /\ stop'[s].pc = "close" /\ stop[s].pc = "email"
            /\ email' = IF email = "closing" THEN "closed" ELSE email
            /\ email = "closing" => jobs = 0
        BY <1>2, <2>2 DEF CloseEmail, To, StopType
      <3>2. email \in {"none", "open", "closing", "closed"}
        BY <1>2 DEF RestType
      <3> QED
        BY <1>1, <1>3, <3>1, <3>2 DEF MailsDone, WorkInv, PastIntake, PastMails
    <2>3. CASE CloseRedis(s) \/ EndPool(s)
      <3>1. PastMails(s) /\ PastIntake(s) /\ UNCHANGED email
        BY <2>3 DEF CloseRedis, EndPool, PastMails, PastIntake, mailVars
      <3> QED
        BY <1>1, <1>3, <3>1 DEF MailsDone, WorkInv, PastIntake, PastMails
    <2> QED
      BY <2>1, <2>2, <2>3
  <1>10. PoolGone'
    <2>1. CASE CloseRedis(s) \/ EndPool(s)
      BY <1>2, <2>1 DEF CloseRedis, EndPool, To, StopType, PoolGone
    <2>2. CASE UNCHANGED pool /\ stop[s].pc # "pool"
      BY <1>3, <1>4, <2>2 DEF PoolGone, WorkInv
    <2> QED
      BY <2>1, <2>2 DEF Quit, CloseEmail, poolVars
  <1> QED
    BY <1>5, <1>6, <1>8, <1>9, <1>10 DEF WorkInv

LEMMA WorkStep == TypeOK /\ SweepInv /\ WorkInv /\ [Next]_vars => WorkInv'
  <1> SUFFICES ASSUME TypeOK, SweepInv, WorkInv, [Next]_vars
               PROVE  WorkInv'
    OBVIOUS
  <1>1. CASE UNCHANGED vars
    BY <1>1 DEF vars, sweepVars, partVars, consumerVars, mailVars, poolVars, WorkInv, SignalSeen, ToBeStarted,
                SweepGivenUp, LoopsGivenUp, MailsDone, PoolGone, PastSweep, Past, PastIntake, PastMails,
                Settled, Busy
  <1>2. CASE Crash \/ \E s \in Signals : Exit(s)
    BY <1>2, DeadWork DEF Crash, Exit
  <1> QED
    BY <1>1, <1>2, StartWork, PartWork, StopWork, CloseWork DEF Next, Stopping

\* What the timers have begun: once a stop has cleared them, a check or a cycle
\* in progress was so then; before they are set there is none.
TimersGivenUp ==
    /\ ~health.timer /\ ~health.stopped => health.checks = 0
    /\ ~replayer.timer => replayer.cycles = 0 \/ replayer.late
    /\ \A s \in Signals : PastSweep(s) => \/ "identity" \in revived
                                        \/ /\ ~health.timer /\ ~replayer.timer
                                           /\ health.checks = 0 \/ health.late

LEMMA TimersStep == TypeOK /\ WorkInv /\ TimersGivenUp /\ [Next]_vars => TimersGivenUp'
  <1> SUFFICES ASSUME TypeOK, WorkInv, TimersGivenUp, [Next]_vars
               PROVE  TimersGivenUp'
    OBVIOUS
  <1>1. HealthType /\ ReplayerType /\ StopType
    BY TypesInGroups
  <1>2. health.checks \in 0..MaxChecks /\ replayer.cycles \in 0..MaxChecks
    BY <1>1, HealthFields, ReplayerFields
  <1>3. ASSUME UNCHANGED <<health, replayer, revived>>,
               \A s \in Signals : PastSweep(s)' => PastSweep(s)
        PROVE  TimersGivenUp'
    BY <1>3 DEF TimersGivenUp
  <1>4. ASSUME Die
        PROVE  TimersGivenUp'
    <2>1. \A s \in Signals : ~PastSweep(s)'
      BY <1>4 DEF Die, FreshStop, NoStop, PastSweep
    <2> QED
      BY <1>4, <2>1 DEF Die, FreshHealth, Idle, TimersGivenUp
  <1>5. CASE UNCHANGED vars
    BY <1>3, <1>5 DEF vars, partVars, PastSweep
  <1>6. CASE \/ RedisDown \/ RedisBack \/ Restart \/ Started \/ Tick \/ SweepEnds \/ JobStarts \/ JobEnds
             \/ (\E k \in Streams : Reads(k) \/ Worked(k)) \/ \E w \in Workers : Return(w)
    BY <1>3, <1>6 DEF RedisDown, RedisBack, Restart, Started, Tick, SweepEnds, JobStarts, JobEnds, Reads,
                      Worked, Return, partVars, PastSweep
  <1>7. CASE Crash \/ \E s \in Signals : Exit(s)
    BY <1>4, <1>7 DEF Crash, Exit
  <1>8. CASE StartCommands
    <2>1. UNCHANGED <<health, replayer, stop>> /\ revived \subseteq revived'
      BY <1>8 DEF StartCommands, StartLoop
    <2> QED
      BY <2>1 DEF TimersGivenUp, PastSweep
  <1>9. CASE StartIdentity
    <2>1. /\ UNCHANGED stop /\ (stopping => "identity" \in revived')
          /\ health' = [health EXCEPT !.timer = TRUE, !.checks = 1] /\ StartReplayer
      BY <1>9 DEF StartIdentity, StartLoop
    <2>2. health'.timer /\ replayer'.timer
      BY <1>1, <2>1 DEF StartReplayer, HealthType, ReplayerType
    <2> QED
      BY <2>1, <2>2 DEF TimersGivenUp, PastSweep, SignalSeen, WorkInv
  <1>10. CASE Check
    <2>1. /\ health.timer /\ health'.timer /\ health'.stopped = health.stopped
          /\ UNCHANGED <<stop, revived, replayer>>
      BY <1>1, <1>10 DEF Check, HealthType
    <2> QED
      BY <2>1 DEF TimersGivenUp, PastSweep
  <1>11. CASE Report
    <2>1. /\ health.checks # 0 /\ health'.checks \in Int
          /\ health'.timer = health.timer /\ health'.stopped = health.stopped
          /\ health'.late = health.late /\ UNCHANGED <<stop, revived, replayer>>
      BY <1>1, <1>2, <1>11 DEF Report, Free, HealthType
    <2> QED
      BY <2>1 DEF TimersGivenUp, PastSweep
  <1>12. CASE ReplayTick
    <2>1. replayer.timer /\ replayer'.timer /\ UNCHANGED <<stop, revived, health>>
      BY <1>1, <1>12 DEF ReplayTick, ReplayerType
    <2> QED
      BY <2>1 DEF TimersGivenUp, PastSweep
  <1>13. CASE ReplayEnds
    <2>1. /\ replayer.cycles > 0 /\ replayer'.cycles = replayer.cycles - 1
          /\ replayer'.timer = replayer.timer
          /\ replayer'.late = (replayer.late /\ replayer.cycles > 1)
          /\ UNCHANGED <<stop, revived, health>>
      BY <1>1, <1>13 DEF ReplayEnds, ReplayerType
    <2>2. replayer'.cycles = 0 \/ replayer.cycles > 1
      BY <1>2, <2>1
    <2>3. ~replayer'.timer => replayer'.cycles = 0 \/ replayer'.late
      <3>1. CASE replayer'.cycles = 0
        BY <3>1
      <3>2. CASE replayer.cycles > 1 /\ ~replayer'.timer
        <4>1. replayer.cycles # 0 /\ ~replayer.timer
          BY <2>1, <3>2
        <4>2. replayer.late
          BY <4>1 DEF TimersGivenUp
        <4> QED
          BY <2>1, <3>2, <4>2, Zenon
      <3> QED
        BY <2>2, <3>1, <3>2
    <2> QED
      BY <2>1, <2>3 DEF TimersGivenUp, PastSweep
  <1>14. ASSUME NEW s \in Signals, Signal(s)
         PROVE  TimersGivenUp'
    <2>1. \A t \in Signals : PastSweep(t)' => PastSweep(t)
      BY <1>1, <1>14 DEF Signal, PastSweep, StopType
    <2> QED
      BY <1>3, <1>14, <2>1 DEF Signal, partVars
  <1>15. ASSUME NEW s \in Signals, Drain(s)
         PROVE  TimersGivenUp'
    <2>1. revived' = revived /\ StopCheck /\ StopReplayer
      BY <1>15 DEF Drain
    <2>2. ~replayer'.timer /\ (replayer'.cycles = 0 \/ replayer'.late)
      <3>1. CASE ~replayer.timer /\ UNCHANGED replayer
        BY <3>1 DEF TimersGivenUp
      <3>2. CASE replayer' = [replayer EXCEPT !.timer = FALSE, !.late = @ \/ replayer.cycles > 0]
        <4>1. /\ ~replayer'.timer /\ replayer'.cycles = replayer.cycles
              /\ replayer'.late = (replayer.late \/ replayer.cycles > 0)
          BY <1>1, <3>2 DEF ReplayerType
        <4>2. replayer.cycles = 0 \/ replayer.cycles > 0
          BY <1>2
        <4> QED
          BY <4>1, <4>2
      <3> QED
        BY <2>1, <3>1, <3>2 DEF StopReplayer
    <2>3. ~health'.timer /\ (health'.checks = 0 \/ (health'.late /\ health'.stopped))
      <3>1. CASE ~health.timer /\ ~health.stopped /\ UNCHANGED health
        BY <3>1 DEF TimersGivenUp
      <3>2. CASE health' = [health EXCEPT !.timer = FALSE, !.stopped = TRUE, !.file = FALSE,
                                          !.late = @ \/ health.checks > 0]
        <4>1. /\ ~health'.timer /\ health'.checks = health.checks /\ health'.stopped
              /\ health'.late = (health.late \/ health.checks > 0)
          BY <1>1, <3>2 DEF HealthType
        <4>2. health.checks = 0 \/ health.checks > 0
          BY <1>2
        <4> QED
          BY <4>1, <4>2
      <3> QED
        BY <2>1, <3>1, <3>2 DEF StopCheck
    <2> QED
      BY <2>1, <2>2, <2>3 DEF TimersGivenUp
  <1>16. ASSUME NEW s \in Signals,
                \/ Pill(s) \/ Race(s) \/ Quit(s) \/ CloseEmail(s) \/ CloseRedis(s) \/ EndPool(s)
         PROVE  TimersGivenUp'
    <2>1. UNCHANGED <<health, replayer, revived>> /\ PastSweep(s)
      BY <1>16 DEF Pill, Race, Quit, CloseEmail, CloseRedis, EndPool, partVars, PastSweep
    <2>2. \A t \in Signals \ {s} : stop'[t] = stop[t]
      BY <1>1, <1>16 DEF Pill, Race, Quit, CloseEmail, CloseRedis, EndPool, StopLoop, To, StopType
    <2>3. \A t \in Signals : PastSweep(t)' => PastSweep(t)
      BY <2>1, <2>2 DEF PastSweep
    <2> QED
      BY <1>3, <2>1, <2>3
  <1> QED
    BY <1>5, <1>6, <1>7, <1>8, <1>9, <1>10, <1>11, <1>12, <1>13, <1>14, <1>15, <1>16 DEF Next, Stopping

\* From the moment the pool is told to end, what still works is what a stop has
\* given up, or what a start under way has started after the signal, part by
\* part: the sweep, each consumer, the health check, the replayer and the mails
\* (media.worker.ts startMediaWorker and stopMediaWorker).
THEOREM PoolGoesLast == Spec => []PoolOutlivesWork
  <1>1. Init => TypeOK /\ SweepInv /\ WorkInv /\ TimersGivenUp
    <2>1. Init => SweepInv
      BY DEF Init, SweepInv
    <2>2. Init => WorkInv
      BY FreshWork DEF Init
    <2>3. Init => TimersGivenUp
      BY DEF Init, FreshHealth, Idle, FreshStop, NoStop, TimersGivenUp, PastSweep
    <2> QED
      BY <2>1, <2>2, <2>3, WorkerTypedInit
  <1>2. TypeOK /\ SweepInv /\ WorkInv /\ TimersGivenUp /\ [Next]_vars
          => TypeOK' /\ SweepInv' /\ WorkInv' /\ TimersGivenUp'
    BY WorkerTypedStep, SweepStep, WorkStep, TimersStep
  <1>3. TypeOK /\ WorkInv /\ TimersGivenUp => PoolOutlivesWork
    <2> SUFFICES ASSUME TypeOK, WorkInv, TimersGivenUp, pool # "open"
                 PROVE  /\ sweeping > 0 => overdue
                        /\ \A k \in Streams :
                             loop[k] \in {"reading", "working"} => overran[k] \/ k \in revived
                        /\ health.checks > 0 => health.late \/ "identity" \in revived
                        /\ replayer.cycles > 0 => replayer.late \/ "identity" \in revived
                        /\ jobs > 0 => "identity" \in revived
      BY DEF PoolOutlivesWork
    <2>1. PICK s \in Signals : stop[s].pc \in {"pool", "exit"}
      BY DEF WorkInv, PoolGone
    <2>2. sweeping = 0 \/ overdue
      BY <2>1 DEF WorkInv, SweepGivenUp, PastSweep
    <2>3. stop[s].stream = "commands" /\ (jobs = 0 \/ "identity" \in revived)
      BY <2>1 DEF WorkInv, LoopsGivenUp, MailsDone, PastIntake, PastMails
    <2>4. \A k \in Streams : Past(s, k)
      BY <2>1, <2>3 DEF Past, PastSweep
    <2>5. \A k \in Streams : Settled(k)
      BY <2>4 DEF WorkInv, LoopsGivenUp
    <2>6. \/ "identity" \in revived
          \/ /\ ~replayer.timer
             /\ health.checks = 0 \/ health.late
      BY <2>1 DEF TimersGivenUp, PastSweep
    <2>7. "identity" \in revived \/ replayer.cycles = 0 \/ replayer.late
      BY <2>6 DEF TimersGivenUp
    <2> QED
      BY <2>2, <2>3, <2>5, <2>6, <2>7 DEF Settled, Busy
  <1> QED
    BY <1>1, <1>2, <1>3, PTL DEF Spec
-----------------------------------------------------------------------------
(* ShutdownEnds, less its fairness: a stop only goes forward.                *)

\* The steps a stop has yet to take before the process exits.
Ahead(q) ==
    CASE q.pc = "none"  -> 0
      [] q.pc = "drain" -> 11
      [] q.pc = "pill"  -> IF q.stream = "identity" THEN 10 ELSE 7
      [] q.pc = "race"  -> IF q.stream = "identity" THEN 9 ELSE 6
      [] q.pc = "quit"  -> IF q.stream = "identity" THEN 8 ELSE 5
      [] q.pc = "email" -> 4
      [] q.pc = "close" -> 3
      [] q.pc = "pool"  -> 2
      [] q.pc = "exit"  -> 1

Forward(s) == \/ stop'[s] = stop[s] \/ ~Alive' \/ stop[s].pc = "none"
              \/ Ahead(stop'[s]) < Ahead(stop[s])

\* Once the e-mail worker is closing there is no mail more for a stop to wait
\* for.
Closing == email \in {"closing", "closed"}
MailsLessen == Closing /\ Alive' => Closing' /\ jobs' <= jobs

StopsForward == MailsLessen /\ \A s \in Signals : Forward(s)

StopsBounded == \A s \in Signals :
    Ahead(stop[s]) \in 0..11 /\ (stop[s].pc = "none" <=> Ahead(stop[s]) = 0)

\* An e-mail worker that has yet to be opened is not closing.
OpenedOnce == main \in {"gone", "commands", "identity"} => email = "none"

LEMMA AheadByStep ==
    ASSUME NEW q \in [pc : {"none", "drain", "pill", "race", "quit", "email", "close", "pool", "exit"},
                      stream : Streams]
    PROVE  Ahead(q) \in 0..11 /\ (q.pc = "none" <=> Ahead(q) = 0)
  <1>1. CASE q.pc = "none"
    BY <1>1 DEF Ahead
  <1>2. CASE q.pc = "drain"
    BY <1>2 DEF Ahead
  <1>3. CASE q.pc = "email"
    BY <1>3 DEF Ahead
  <1>4. CASE q.pc = "close"
    BY <1>4 DEF Ahead
  <1>5. CASE q.pc = "pool"
    BY <1>5 DEF Ahead
  <1>6. CASE q.pc = "exit"
    BY <1>6 DEF Ahead
  <1>7. CASE q.pc = "pill"
    BY <1>7 DEF Ahead
  <1>8. CASE q.pc = "race"
    BY <1>8 DEF Ahead
  <1>9. CASE q.pc = "quit"
    BY <1>9 DEF Ahead
  <1> QED
    BY <1>1, <1>2, <1>3, <1>4, <1>5, <1>6, <1>7, <1>8, <1>9

\* Told to stop, a consumer is sent a pill or has its connection closed.
LEMMA ToldToStop ==
    ASSUME StopType, NEW s \in Signals, NEW k \in Streams, StopLoop(s, k)
    PROVE  /\ stop'[s].pc \in {"pill", "quit"} /\ stop'[s].stream = k
           /\ \A t \in Signals \ {s} : stop'[t] = stop[t]
  BY DEF StopLoop, StopType

LEMMA MovedTo ==
    ASSUME StopType, NEW s \in Signals, NEW pc, To(s, pc)
    PROVE  /\ stop'[s].pc = pc /\ stop'[s].stream = stop[s].stream
           /\ \A t \in Signals \ {s} : stop'[t] = stop[t]
  BY DEF To, StopType

LEMMA StopForward ==
    ASSUME TypeOK, NEW s \in Signals, Stopping(s), NEW t \in Signals
    PROVE  Forward(t)
  <1>1. StopType /\ {"identity", "commands"} = Streams
    BY TypesInGroups DEF Streams
  <1>2. CASE Drain(s)
    <2>1. stop[s].pc = "drain" /\ StopLoop(s, "identity")
      BY <1>2 DEF Drain
    <2> QED
      BY <1>1, <2>1, ToldToStop DEF Forward, Ahead
  <1>3. CASE Pill(s)
    <2>1. stop[s].pc = "pill" /\ To(s, "race")
      BY <1>3 DEF Pill
    <2> QED
      BY <1>1, <2>1, MovedTo DEF Forward, Ahead
  <1>4. CASE Race(s)
    <2>1. stop[s].pc = "race" /\ To(s, "quit")
      BY <1>4 DEF Race
    <2> QED
      BY <1>1, <2>1, MovedTo DEF Forward, Ahead
  <1>5. CASE Quit(s)
    <2>1. stop[s].pc = "quit"
      BY <1>5 DEF Quit
    <2>2. CASE stop[s].stream = "identity" /\ StopLoop(s, "commands")
      BY <1>1, <2>1, <2>2, ToldToStop DEF Forward, Ahead
    <2>3. CASE To(s, "email")
      BY <1>1, <2>1, <2>3, MovedTo DEF Forward, Ahead
    <2> QED
      BY <1>5, <2>2, <2>3 DEF Quit
  <1>6. CASE CloseEmail(s)
    <2>1. stop[s].pc = "email" /\ To(s, "close")
      BY <1>6 DEF CloseEmail
    <2> QED
      BY <1>1, <2>1, MovedTo DEF Forward, Ahead
  <1>7. CASE CloseRedis(s) \/ EndPool(s)
    <2>1. \/ stop[s].pc = "close" /\ (To(s, "exit") \/ To(s, "pool"))
          \/ stop[s].pc = "pool" /\ To(s, "exit")
      BY <1>7 DEF CloseRedis, EndPool
    <2> QED
      BY <1>1, <2>1, MovedTo DEF Forward, Ahead
  <1>8. CASE Exit(s)
    BY <1>8 DEF Exit, Die, Forward, Alive
  <1> QED
    BY <1>2, <1>3, <1>4, <1>5, <1>6, <1>7, <1>8 DEF Stopping

LEMMA StopsForwardStep ==
    ASSUME TypeOK, OpenedOnce, [Next]_vars
    PROVE  StopsBounded' /\ OpenedOnce' /\ StopsForward
  <1>0. StopType /\ RestType /\ StopType'
    BY WorkerTypedStep, TypesInGroups DEF TypeOK, StopType
  <1>1. StopsBounded'
    BY <1>0, AheadByStep DEF StopsBounded, StopType
  <1>2. OpenedOnce'
    <2>1. CASE Crash \/ \E s \in Signals : Exit(s)
      BY <2>1 DEF Crash, Exit, Die, OpenedOnce
    <2>2. CASE StartIdentity
      BY <2>2 DEF StartIdentity, OpenedOnce
    <2>3. CASE StartCommands \/ Restart \/ Started
      BY <2>3 DEF StartCommands, Restart, Started, partVars, mailVars, OpenedOnce
    <2>4. CASE \E s \in Signals : Quit(s) \/ CloseEmail(s)
      BY <2>4 DEF Quit, CloseEmail, OpenedOnce
    <2>5. CASE UNCHANGED <<main, email>>
      BY <2>5 DEF OpenedOnce
    <2> QED
      BY <2>1, <2>2, <2>3, <2>4, <2>5
         DEF Next, vars, mailVars, partVars, RedisDown, RedisBack, Tick, SweepEnds, JobStarts, JobEnds,
             Check, Report, ReplayTick, ReplayEnds, Reads, Worked, Return, Signal, Stopping, Drain, Pill,
             Race, CloseRedis, EndPool
  <1>3. MailsLessen
    <2>1. CASE UNCHANGED <<email, jobs>> \/ JobEnds
      BY <1>0, <2>1 DEF MailsLessen, Closing, JobEnds, RestType
    <2>2. CASE StartIdentity \/ JobStarts
      BY <2>2 DEF OpenedOnce, StartIdentity, JobStarts, MailsLessen, Closing
    <2>3. CASE Crash \/ \E s \in Signals : Exit(s)
      BY <2>3 DEF Crash, Exit, Die, MailsLessen, Alive
    <2>4. CASE \E s \in Signals : Quit(s) \/ CloseEmail(s)
      BY <1>0, <2>4 DEF Quit, CloseEmail, MailsLessen, Closing, RestType
    <2> QED
      BY <2>1, <2>2, <2>3, <2>4
         DEF Next, vars, mailVars, partVars, RedisDown, RedisBack, Restart, StartCommands, Started, Tick,
             SweepEnds, Check, Report, ReplayTick, ReplayEnds, Reads, Worked, Return, Signal, Stopping,
             Drain, Pill, Race, CloseRedis, EndPool
  <1>4. ASSUME NEW t \in Signals
        PROVE  Forward(t)
    <2>1. CASE UNCHANGED stop
      BY <2>1 DEF Forward
    <2>2. CASE Crash
      BY <2>2 DEF Crash, Die, Forward, Alive
    <2>3. ASSUME NEW s \in Signals, Signal(s)
          PROVE  Forward(t)
      BY <1>0, <2>3 DEF Signal, StopType, Forward
    <2>4. ASSUME NEW s \in Signals, Stopping(s)
          PROVE  Forward(t)
      BY <2>4, StopForward
    <2> QED
      BY <2>1, <2>2, <2>3, <2>4
         DEF Next, vars, RedisDown, RedisBack, Restart, StartCommands, StartIdentity, Started, Tick,
             SweepEnds, JobStarts, JobEnds, Check, Report, ReplayTick, ReplayEnds, Reads, Worked, Return
  <1> QED
    BY <1>1, <1>2, <1>3, <1>4 DEF StopsForward

\* From a signal to the exit a stop takes eleven steps at most and none back,
\* however the stop of the other signal, a start still under way, sweeps and
\* consumers interleave with it, and the mails it may have to wait for become
\* fewer only.  How long a step waits is not said (media.worker.ts lines 128-191,
\* event-consumer.ts stop).
THEOREM StopsGoForward == Spec => []StopsBounded /\ [][StopsForward]_vars
  <1>1. Init => TypeOK /\ StopsBounded /\ OpenedOnce
    <2> SUFFICES ASSUME Init
                 PROVE  StopsBounded /\ OpenedOnce
      BY WorkerTypedInit
    <2>1. StopType
      BY WorkerTypedInit, TypesInGroups
    <2> QED
      BY <2>1, AheadByStep DEF Init, StopsBounded, StopType, OpenedOnce
  <1>2. TypeOK /\ OpenedOnce /\ [Next]_vars => StopsBounded' /\ OpenedOnce' /\ StopsForward
    BY StopsForwardStep
  <1> QED
    BY <1>1, <1>2, WorkerTypeCorrect, PTL DEF Spec
=============================================================================

------------------------------ MODULE Antivirus ------------------------------
(***************************************************************************)
(* The antivirus: a ClamAV daemon that is suspended when idle and woken    *)
(* for the next upload, and the scans that need it.  The server and the    *)
(* worker each hold a ClamavStandbyController, which publishes wake and    *)
(* suspend on the control channel of a manager outside this repository,    *)
(* counts its own scans only and judges the daemon by its own pings.       *)
(***************************************************************************)
EXTENDS FileValidation, FiniteSets, SequencesExt

CONSTANTS
    Processes,  \* the server, the workers: one controller each
    Scans,      \* calls of scanBufferForVirus in progress
    Files,      \* contents, by SHA-256
    Contents,   \* what each of them is, to the validation in process
    Infected,   \* those in which ClamAV finds something
    MaxHangs,   \* bound: scans that hang at once
    MaxFaults,  \* bound: messages lost, database calls that fail
    MaxCrashes  \* bound: processes that die

AnyProcess == CHOOSE p \in Processes : TRUE
AnyFile    == CHOOSE f \in Files : TRUE

ASSUME AntivirusConstantsOK ==
    /\ Processes # {} /\ Files # {} /\ Infected \subseteq Files
    /\ MaxHangs \in Nat /\ MaxFaults \in Nat /\ MaxCrashes \in Nat
    /\ IsFiniteSet(Scans)

\* The files whose contents are let through to ClamAV.
Admitted == {f \in Files : Valid(Contents[f])}

VARIABLES
    state,   \* of a controller: standby, warming_up or ready
    active,  \* its activeScans
    idle,    \* whether its lastActivityAt is 15 minutes old
    polling, \* whether a backgroundWarmupPoll of it runs
    bus,     \* its control messages on their way to the manager
    daemon,  \* ClamAV: down, booting or up
    scan,    \* what a scan is doing, for whom
    repute,  \* file_reputation
    passed,  \* contents a scan has called clean
    missed,  \* infected contents the scanner has answered it could not scan
    faults, crashes

ctlVars == <<state, active, idle, polling, bus>>
envVars == <<faults, crashes>>
filesVars == <<repute, passed, missed>>
vars == <<ctlVars, daemon, scan, filesVars, envVars>>

NoScan == [pc |-> "idle", home |-> AnyProcess, file |-> AnyFile]

Init ==
    /\ state = [p \in Processes |-> "standby"] /\ active = [p \in Processes |-> 0]
    /\ idle = [p \in Processes |-> FALSE] /\ polling = [p \in Processes |-> FALSE]
    /\ bus = [p \in Processes |-> <<>>]
    /\ daemon \in {"down", "up"}
    /\ scan = [s \in Scans |-> NoScan]
    /\ repute = [f \in Files |-> "unknown"] /\ passed = {} /\ missed = {}
    /\ faults = 0 /\ crashes = 0

-----------------------------------------------------------------------------
(* The controller.                                                          *)

\* A message that repeats the last one on its way changes nothing.
Publish(p, action) ==
    bus' = [bus EXCEPT ![p] = IF @ # <<>> /\ Last(@) = action THEN @ ELSE Append(@, action)]

\* triggerWarmup, by a controller that thinks st of the daemon.
Warm(p) ==
    /\ idle' = [idle EXCEPT ![p] = FALSE]
    /\ \/ state[p] = "ready" /\ UNCHANGED <<state, polling, bus>>
       \/ /\ state[p] # "ready"
          /\ state' = [state EXCEPT ![p] = "warming_up"]
          /\ polling' = [polling EXCEPT ![p] = TRUE]
          /\ Publish(p, "wake")

\* An upload URL is asked for: the daemon is warmed up in advance.
Announce(p) ==
    /\ Warm(p)
    /\ UNCHANGED <<active, daemon, scan, filesVars, envVars>>

\* backgroundWarmupPoll: a PONG makes the controller ready; after ten pings,
\* or when someone else has settled the state, it ends.
Poll(p) ==
    /\ polling[p]
    /\ \/ /\ state[p] = "warming_up" /\ daemon = "up"
          /\ state' = [state EXCEPT ![p] = "ready"]
       \/ UNCHANGED state
    /\ polling' = [polling EXCEPT ![p] = FALSE]
    /\ UNCHANGED <<active, idle, bus, daemon, scan, filesVars, envVars>>

\* Fifteen minutes outlast every ping and every message.
GoIdle(p) ==
    /\ ~idle[p] /\ ~polling[p] /\ bus[p] = <<>>
    /\ \A s \in Scans : scan[s].home = p => scan[s].pc \in {"idle", "scanning", "hung"}
    /\ idle' = [idle EXCEPT ![p] = TRUE]
    /\ UNCHANGED <<state, active, polling, bus, daemon, scan, filesVars, envVars>>

Suspend(p) ==
    /\ state' = [state EXCEPT ![p] = "standby"]
    /\ Publish(p, "suspend")
    /\ UNCHANGED <<active, idle, polling, daemon, scan, filesVars, envVars>>

\* Mutation: scans in progress are not looked at.
EvaluateIdleOnly(p) == idle[p] /\ state[p] # "standby" /\ Suspend(p)

EvaluateIdle(p) ==
    /\ active[p] = 0 /\ idle[p] /\ state[p] # "standby"
    /\ Suspend(p)

-----------------------------------------------------------------------------
(* The manager and the daemon.                                              *)

Deliver(p) ==
    /\ bus[p] # <<>>
    /\ bus' = [bus EXCEPT ![p] = Tail(@)]
    /\ daemon' = CASE Head(bus[p]) = "suspend" -> "down"
                   [] Head(bus[p]) = "wake"    -> IF daemon = "down" THEN "booting" ELSE daemon
    /\ UNCHANGED <<state, active, idle, polling, scan, filesVars, envVars>>

Lose(p) ==
    /\ bus[p] # <<>> /\ faults < MaxFaults
    /\ bus' = [bus EXCEPT ![p] = Tail(@)]
    /\ faults' = faults + 1
    /\ UNCHANGED <<state, active, idle, polling, daemon, scan, filesVars, crashes>>

Boot ==
    /\ daemon = "booting" /\ daemon' = "up"
    /\ UNCHANGED <<ctlVars, scan, filesVars, envVars>>

-----------------------------------------------------------------------------
(* scanBufferForVirus.                                                      *)

At(s, pc) == scan' = [scan EXCEPT ![s].pc = pc]
Home(s)   == scan[s].home

\* getReputation answers v; a row that cannot be read is unknown.
Answers(f, v) ==
    \/ v = repute[f] /\ UNCHANGED faults
    \/ v = "unknown" /\ faults < MaxFaults /\ faults' = faults + 1

\* The content is known: no scan is needed.
Reputed(f) ==
    /\ f \in Admitted /\ repute[f] # "unknown"
    /\ passed' = IF repute[f] = "clean" THEN passed \cup {f} ELSE passed
    /\ UNCHANGED <<ctlVars, daemon, scan, repute, missed, envVars>>

\* notifyScanStarted and the beginning of ensureReady.
Begin(s, p, f) ==
    /\ scan[s].pc = "idle"
    /\ f \in Admitted /\ Answers(f, "unknown")
    /\ active' = [active EXCEPT ![p] = @ + 1]
    /\ Warm(p)
    /\ scan' = [scan EXCEPT ![s] = [pc |-> IF state[p] = "ready" THEN "alive" ELSE "wait",
                                    home |-> p, file |-> f]]
    /\ UNCHANGED <<daemon, filesVars, crashes>>

\* A controller that thinks the daemon ready checks; without a PONG within a
\* second it asks for a warm-up.
Alive(s) == LET p == Home(s) IN
    /\ scan[s].pc = "alive"
    /\ \/ /\ daemon = "up" /\ At(s, "scanning")
          /\ UNCHANGED <<state, idle, polling, bus>>
       \/ At(s, "wait") /\ Warm(p)
    /\ UNCHANGED <<active, daemon, filesVars, envVars>>

\* The loop of ensureReady: a PONG before the deadline.
Pong(s) == LET p == Home(s) IN
    /\ scan[s].pc = "wait" /\ daemon = "up"
    /\ state' = [state EXCEPT ![p] = "ready"]
    /\ At(s, "scanning")
    /\ UNCHANGED <<active, idle, polling, bus, daemon, filesVars, envVars>>

\* A daemon that accepts the connection and closes it without an answer, as
\* one that is going up or down may: no event settles the promise of the ping.
Hang(s) ==
    /\ scan[s].pc \in {"alive", "wait"} /\ daemon = "booting"
    /\ Cardinality({t \in Scans : scan[t].pc = "hung"}) < MaxHangs
    /\ At(s, "hung")
    /\ UNCHANGED <<ctlVars, daemon, filesVars, envVars>>

\* The finally of the scan.
Leave(s) == LET p == Home(s) IN
    /\ scan' = [scan EXCEPT ![s] = NoScan]
    /\ active' = [active EXCEPT ![p] = IF @ = 0 THEN 0 ELSE @ - 1]
    /\ idle' = [idle EXCEPT ![p] = FALSE]
    /\ UNCHANGED <<state, polling, bus, daemon, crashes>>

\* Mutation: an error skips the count.
GiveUpUncounted(s) ==
    /\ scan[s].pc = "wait"
    /\ scan' = [scan EXCEPT ![s] = NoScan]
    /\ UNCHANGED <<ctlVars, daemon, filesVars, envVars>>

\* Mutation: a daemon that does not answer is taken for a clean file.
GiveUpOpen(s) ==
    /\ scan[s].pc = "wait"
    /\ passed' = passed \cup {scan[s].file}
    /\ Leave(s)
    /\ UNCHANGED <<repute, missed, faults>>

\* The deadline passes: the scan throws.
GiveUp(s) ==
    /\ scan[s].pc = "wait"
    /\ Leave(s)
    /\ UNCHANGED <<filesVars, faults>>

\* The daemon answers: what it finds, or that it could not scan, which is
\* clamscan's isInfected = null and goes on like a clean file's.  Recording the
\* answer may fail unnoticed.
Verdict(s) == LET f == scan[s].file IN
    /\ scan[s].pc = "scanning" /\ daemon = "up"
    /\ \E answer \in {IF f \in Infected THEN "infected" ELSE "clean", "unable"} :
         LET v == IF answer = "infected" THEN "infected" ELSE "clean" IN
           /\ \/ repute' = [repute EXCEPT ![f] = v] /\ UNCHANGED faults
              \/ UNCHANGED repute /\ faults < MaxFaults /\ faults' = faults + 1
           /\ passed' = IF v = "clean" THEN passed \cup {f} ELSE passed
           /\ missed' = IF answer = "unable" THEN missed \cup ({f} \cap Infected) ELSE missed
    /\ Leave(s)

\* The connection breaks, or the scan times out.
ScanError(s) ==
    /\ scan[s].pc = "scanning"
    /\ Leave(s)
    /\ UNCHANGED <<filesVars, faults>>

Crash(p) ==
    /\ crashes < MaxCrashes /\ crashes' = crashes + 1
    /\ state' = [state EXCEPT ![p] = "standby"] /\ active' = [active EXCEPT ![p] = 0]
    /\ idle' = [idle EXCEPT ![p] = FALSE] /\ polling' = [polling EXCEPT ![p] = FALSE]
    /\ bus' = [bus EXCEPT ![p] = <<>>]
    /\ scan' = [s \in Scans |-> IF Home(s) = p THEN NoScan ELSE scan[s]]
    /\ UNCHANGED <<daemon, filesVars, faults>>

-----------------------------------------------------------------------------

Proceed(s) == Alive(s) \/ Pong(s) \/ GiveUp(s) \/ Verdict(s) \/ ScanError(s)

Next ==
    \/ \E p \in Processes :
          \/ Announce(p) \/ Poll(p) \/ GoIdle(p) \/ EvaluateIdle(p)
          \/ Deliver(p) \/ Lose(p) \/ Crash(p)
    \/ Boot
    \/ \E f \in Files : Reputed(f) \/ \E s \in Scans, p \in Processes : Begin(s, p, f)
    \/ \E s \in Scans : Proceed(s) \/ Hang(s)

Spec == Init /\ [][Next]_vars

\* Timers and the event loop run, messages arrive, the daemon boots; what is
\* in quarantine is scanned again by the worker's sweep every 30 seconds.
Fairness ==
    /\ \A p \in Processes : WF_vars(Poll(p)) /\ WF_vars(Deliver(p))
    /\ WF_vars(Boot)
    /\ \A s \in Scans : WF_vars(Proceed(s))
    /\ WF_vars(\E s \in Scans, p \in Processes, f \in Files : Begin(s, p, f))

FairSpec == Spec /\ Fairness
-----------------------------------------------------------------------------

States == {"standby", "warming_up", "ready"}

InProgress(p) == {s \in Scans : scan[s].pc # "idle" /\ Home(s) = p}

\* Every variable has its type, and a control message does not pile up.
TypeOK ==
    /\ state \in [Processes -> States] /\ active \in [Processes -> Nat]
    /\ idle \in [Processes -> BOOLEAN] /\ polling \in [Processes -> BOOLEAN]
    /\ bus \in [Processes -> Seq({"wake", "suspend"})]
    /\ \A p \in Processes : Len(bus[p]) <= 2
    /\ daemon \in {"down", "booting", "up"}
    /\ scan \in [Scans -> [pc : {"idle", "alive", "wait", "scanning", "hung"},
                           home : Processes, file : Files]]
    /\ repute \in [Files -> {"unknown", "clean", "infected"}]
    /\ passed \subseteq Files /\ missed \subseteq Infected
    /\ faults \in 0..MaxFaults /\ crashes \in 0..MaxCrashes

\* activeScans counts the scans in progress, whichever way each of them ends
\* (clamav.ts lines 62-86).
ActiveCountsScans ==
    \A p \in Processes : active[p] = Cardinality(InProgress(p))

\* A controller does not put the daemon to sleep under its own scans, however
\* long they take (clamav-standby.controller.ts evaluateIdleTimeout).
SparesItsScans ==
    [][\A p \in Processes :
          Len(bus'[p]) > Len(bus[p]) /\ Last(bus'[p]) = "suspend" => InProgress(p) = {}]_vars

\* Without an answer of the daemon nothing is called clean: not when it sleeps,
\* not when it dies, not when the database fails; and nothing ever whose
\* validation fails, whatever is known of it (clamav.ts scanBufferForVirus).
\* What is infected passes in one case only, and from then on by its recorded
\* reputation too: the daemon answered that it could not scan it.
FailsClosed ==
    /\ passed \cap Infected \subseteq missed
    /\ \A f \in Infected : repute[f] = "clean" => f \in missed
    /\ passed \subseteq Admitted

\* A sleeping daemon for which a scan waits is woken, as long as contents are
\* left to be scanned (clamav-standby.controller.ts ensureReady: the loop that
\* triggerWarmup is to have prepared).
WokenWhenNeeded ==
    daemon = "down" /\ (\E s \in Scans : scan[s].pc = "wait")
        ~> daemon # "down" \/ (\A f \in Files : repute[f] # "unknown")
=============================================================================

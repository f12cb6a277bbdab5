---------------------------- MODULE CommandStream ----------------------------
(***************************************************************************)
(* The Redis stream of media commands: its consumer group, the replicas    *)
(* of RedisStreamConsumer that drain it, the dead-letter stream and the    *)
(* processes that replay it.                                               *)
(*                                                                         *)
(* An entry of the stream is named by its position.  A replica works       *)
(* through a batch in the order of the entries, one await at a time: every *)
(* await of processMessages and of the handler ends one action here, so    *)
(* replicas, replayers, crashes and Redis errors interleave where the code *)
(* yields.                                                                 *)
(***************************************************************************)
EXTENDS Integers, Sequences, FiniteSets

CONSTANTS
    Consumers,   \* replicas of the worker
    Replayers,   \* processes that reinject dead letters
    Commands,    \* the commands crm-collab may send
    NoPayload,   \* commands whose stream entry has no payload field
    BadJson,     \* ... whose payload is not JSON
    Rejected,    \* ... of an unsupported version or an invalid schema
    Forged,      \* ... whose signature or claims do not verify
    Deletes,     \* the file.delete-requested commands
    Pill,        \* the __shutdown__ entry
    MaxRetries,  \* MEDIA_COMMANDS_MAX_RETRIES
    BatchSize,   \* COUNT of XREADGROUP and XAUTOCLAIM
    MaxEntries,  \* bound: entries ever added to the stream
    MaxCrashes,  \* bound: replicas that die
    MaxFaults    \* bound: Redis calls that fail

ASSUME ConstantsOK ==
    /\ IsFiniteSet(Consumers)
    /\ Consumers # {}
    /\ NoPayload \subseteq Commands
    /\ BadJson \subseteq Commands
    /\ Rejected \subseteq Commands
    /\ Forged \subseteq Commands
    /\ Deletes \subseteq Commands
    /\ Pill \notin Commands
    /\ MaxRetries \in Nat \ {0}
    /\ BatchSize \in Nat \ {0}
    /\ MaxEntries \in Nat
    /\ MaxCrashes \in Nat
    /\ MaxFaults \in Nat

VARIABLES
    stream,     \* the entries added so far, oldest first
    last,       \* last-delivered position of the consumer group
    count,      \* pending entries list: deliveries of an entry, 0 when not pending
    idle,       \* pending entries untouched for pendingIdleMs
    running,    \* the running flag of each replica
    pc,         \* where the replica's loop is
    phase,      \* whether the batch comes from XAUTOCLAIM or XREADGROUP
    batch,      \* entries of the batch still to process
    seen,       \* deliveryCount read for the entry in hand
    expired,    \* commands whose token has expired
    gone,       \* delete commands whose object has been removed
    responses,  \* the response stream
    dlqLog,     \* every entry ever appended to the dead-letter stream
    dlqLive,    \* the ones not deleted from it
    lost,       \* entries whose dead-letter append failed (only logged)
    todo,       \* dead letters a replayer has listed and not handled
    rpc,        \* where the replayer is
    crashes, faults

groupVars    == <<last, count, idle>>
loopVars     == <<running, pc, phase, batch, seen>>
outcomeVars  == <<gone, responses, dlqLog, dlqLive, lost>>
replayerVars == <<todo, rpc>>
envVars      == <<expired, crashes, faults>>
vars == <<stream, groupVars, loopVars, outcomeVars, replayerVars, envVars>>

Ids   == 1..MaxEntries
Items == [cmd : Commands \cup {Pill}, dead : Nat]

Malformed == NoPayload \cup BadJson \cup Rejected

Init ==
    /\ stream = <<>> /\ last = 0
    /\ count = [i \in Ids |-> 0] /\ idle = {}
    /\ running = [c \in Consumers |-> FALSE]
    /\ pc = [c \in Consumers |-> "stopped"]
    /\ phase = [c \in Consumers |-> "read"]
    /\ batch = [c \in Consumers |-> {}]
    /\ seen = [c \in Consumers |-> 1]
    /\ gone = {} /\ responses = {} /\ dlqLog = <<>> /\ dlqLive = {} /\ lost = {}
    /\ todo = [r \in Replayers |-> {}] /\ rpc = [r \in Replayers |-> "idle"]
    /\ expired = {} /\ crashes = 0 /\ faults = 0

-----------------------------------------------------------------------------
(* Redis.                                                                    *)

\* A Redis call fails; the caller's promise rejects.
Fault == faults < MaxFaults /\ faults' = faults + 1 /\ UNCHANGED <<expired, crashes>>

AddEntry(cmd, dead) ==
    /\ Len(stream) < MaxEntries
    /\ stream' = Append(stream, [cmd |-> cmd, dead |-> dead])

\* The oldest BatchSize entries of S.
Oldest(S) == {i \in S : Cardinality({j \in S : j < i}) < BatchSize}

\* What XREADGROUP > returns: up to BatchSize entries never delivered.
Newest == IF last + BatchSize < Len(stream) THEN last + BatchSize ELSE Len(stream)
Fresh  == (last + 1)..Newest

\* Hand the entries S out once more: the group counts a delivery of each.
Deliver(S) ==
    /\ count' = [i \in Ids |-> IF i \in S THEN count[i] + 1 ELSE count[i]]
    /\ idle' = idle \ S

\* XACK removes an entry from the pending list, whoever holds it.
Ack(i) ==
    /\ count' = [count EXCEPT ![i] = 0]
    /\ idle' = idle \ {i}
    /\ UNCHANGED last

Acked(i) == i <= last /\ count[i] = 0

Cmd(i) == stream[i].cmd

-----------------------------------------------------------------------------
(* The environment: crm-collab sends commands, tokens and idle times run    *)
(* out, processes die and are started again.                                *)

Produce(m) ==
    /\ \A k \in DOMAIN stream : Cmd(k) # m
    /\ AddEntry(m, 0)
    /\ UNCHANGED <<groupVars, loopVars, outcomeVars, replayerVars, envVars>>

\* Of the tokens, only those that verify at all matter when they expire.
Expire(m) ==
    /\ m \notin Malformed \cup Forged \cup expired
    /\ expired' = expired \cup {m}
    /\ UNCHANGED <<stream, groupVars, loopVars, outcomeVars, replayerVars, crashes, faults>>

GoIdle(i) ==
    /\ count[i] > 0 /\ i \notin idle
    /\ idle' = idle \cup {i}
    /\ UNCHANGED <<stream, last, count, loopVars, outcomeVars, replayerVars, envVars>>

\* start: the group exists from the first start on; the loop begins.
Start(c) ==
    /\ pc[c] = "stopped"
    /\ running' = [running EXCEPT ![c] = TRUE]
    /\ pc' = [pc EXCEPT ![c] = "reclaim"]
    /\ UNCHANGED <<stream, groupVars, phase, batch, seen, outcomeVars, replayerVars, envVars>>

\* stop: clear the flag and push the poison pill; a failed push is ignored.
Stop(c) ==
    /\ running[c]
    /\ running' = [running EXCEPT ![c] = FALSE]
    /\ AddEntry(Pill, 0) \/ UNCHANGED stream
    /\ UNCHANGED <<groupVars, pc, phase, batch, seen, outcomeVars, replayerVars, envVars>>

\* The process dies, or exits when stop() gives up waiting after 3 s.
Crash(c) ==
    /\ pc[c] # "stopped" /\ crashes < MaxCrashes
    /\ crashes' = crashes + 1
    /\ running' = [running EXCEPT ![c] = FALSE]
    /\ pc' = [pc EXCEPT ![c] = "stopped"]
    /\ batch' = [batch EXCEPT ![c] = {}]
    /\ seen' = [seen EXCEPT ![c] = 1]
    /\ UNCHANGED <<stream, groupVars, phase, outcomeVars, replayerVars, expired, faults>>

-----------------------------------------------------------------------------
(* readLoop and reclaimPending.                                              *)

Top(c)        == IF running[c] THEN "reclaim" ELSE "stopped"
EndOfBatch(c) == IF phase[c] = "reclaim" THEN "read" ELSE Top(c)

\* Mutation: pending entries are never reclaimed.
ReclaimNothing(c) ==
    /\ pc[c] = "reclaim"
    /\ pc' = [pc EXCEPT ![c] = "read"]
    /\ UNCHANGED <<stream, groupVars, running, phase, batch, seen, outcomeVars, replayerVars, envVars>>

\* XAUTOCLAIM from 0-0: the oldest idle entries, whichever replica has them.
Reclaim(c) ==
    /\ pc[c] = "reclaim"
    /\ LET S == Oldest(idle) IN
         /\ Deliver(S)
         /\ batch' = [batch EXCEPT ![c] = S]
         /\ pc' = [pc EXCEPT ![c] = IF S = {} THEN "read" ELSE "take"]
    /\ phase' = [phase EXCEPT ![c] = "reclaim"]
    /\ UNCHANGED <<stream, last, running, seen, outcomeVars, replayerVars, envVars>>

\* XREADGROUP >: entries never delivered; nothing new within blockMs is null.
Read(c) ==
    /\ pc[c] = "read"
    /\ last' = Newest
    /\ Deliver(Fresh)
    /\ batch' = [batch EXCEPT ![c] = Fresh]
    /\ pc' = [pc EXCEPT ![c] = IF Fresh = {} THEN Top(c) ELSE "take"]
    /\ phase' = [phase EXCEPT ![c] = "read"]
    /\ UNCHANGED <<stream, running, seen, outcomeVars, replayerVars, envVars>>

\* Either call fails before or after Redis served it: an error in
\* reclaimPending is swallowed, one in XREADGROUP backs off to the top.
ReclaimFault(c) ==
    /\ pc[c] = "reclaim" /\ Fault
    /\ Deliver(Oldest(idle)) \/ UNCHANGED <<count, idle>>
    /\ pc' = [pc EXCEPT ![c] = "read"]
    /\ UNCHANGED <<stream, last, running, phase, batch, seen, outcomeVars, replayerVars>>

ReadFault(c) ==
    /\ pc[c] = "read" /\ Fault
    /\ (last' = Newest /\ Deliver(Fresh)) \/ UNCHANGED groupVars
    /\ pc' = [pc EXCEPT ![c] = Top(c)]
    /\ UNCHANGED <<stream, running, phase, batch, seen, outcomeVars, replayerVars>>

-----------------------------------------------------------------------------
(* processMessages, for the entry i at the head of the batch.               *)

At(c, i, where) ==
    /\ pc[c] = where
    /\ i \in batch[c]
    /\ \A j \in batch[c] : i <= j

Goto(c, where) ==
    /\ pc' = [pc EXCEPT ![c] = where]
    /\ UNCHANGED <<running, phase, batch, seen>>

\* On to the next message of the batch.
Continue(c, i) ==
    /\ batch' = [batch EXCEPT ![c] = @ \ {i}]
    /\ pc' = [pc EXCEPT ![c] = IF batch[c] = {i} THEN EndOfBatch(c) ELSE "take"]
    /\ seen' = [seen EXCEPT ![c] = 1]
    /\ UNCHANGED <<running, phase>>

\* An error leaves processMessages: the rest of the batch stays pending.
Abandon(c) ==
    /\ batch' = [batch EXCEPT ![c] = {}]
    /\ pc' = [pc EXCEPT ![c] = EndOfBatch(c)]
    /\ seen' = [seen EXCEPT ![c] = 1]
    /\ UNCHANGED <<running, phase>>

\* Mutation: off by one in the comparison with maxRetries.
RetryOnceMore(c, i) ==
    IF seen[c] <= MaxRetries THEN Continue(c, i) ELSE Goto(c, "respond")

\* The catch around the handler and its ack, for a retryable error.
RetryOrBury(c, i) ==
    IF seen[c] < MaxRetries THEN Continue(c, i) ELSE Goto(c, "respond")

\* The pill goes straight to its ack, a malformed entry to the dead letters,
\* anything else has its delivery count read; an error there counts as 1.
TakePill(c, i) ==
    /\ At(c, i, "take") /\ Cmd(i) = Pill
    /\ Goto(c, "settle")
    /\ UNCHANGED <<stream, groupVars, outcomeVars, replayerVars, envVars>>

\* Mutation: a malformed entry is acknowledged without a dead letter.
DropMalformed(c, i) ==
    /\ At(c, i, "take") /\ Cmd(i) \in Malformed
    /\ Goto(c, "settle")
    /\ UNCHANGED <<stream, groupVars, outcomeVars, replayerVars, envVars>>

TakeMalformed(c, i) ==
    /\ At(c, i, "take") /\ Cmd(i) \in Malformed
    /\ Goto(c, "respond")
    /\ UNCHANGED <<stream, groupVars, outcomeVars, replayerVars, envVars>>

TakeCommand(c, i) ==
    /\ At(c, i, "take") /\ Cmd(i) \in Commands \ Malformed
    /\ \/ /\ seen' = [seen EXCEPT ![c] = IF count[i] > 0 THEN count[i] ELSE 1]
          /\ UNCHANGED envVars
       \/ /\ seen' = [seen EXCEPT ![c] = 1]
          /\ Fault
    /\ pc' = [pc EXCEPT ![c] = "handle"]
    /\ UNCHANGED <<stream, groupVars, running, phase, batch, outcomeVars, replayerVars>>

\* verifyMediaCommandSignature rejects: NonRetryableStreamError.
Reject(c, i) ==
    /\ At(c, i, "handle") /\ Cmd(i) \in Forged \cup expired
    /\ Goto(c, "respond")
    /\ UNCHANGED <<stream, groupVars, outcomeVars, replayerVars, envVars>>

\* Mutation: the result is not published.
ExecuteSilently(c, i) ==
    /\ At(c, i, "handle") /\ Cmd(i) \notin Forged \cup expired
    /\ Cmd(i) \notin gone
    /\ gone' = gone \cup ({Cmd(i)} \cap Deletes)
    /\ Goto(c, "ack")
    /\ UNCHANGED <<stream, groupVars, responses, dlqLog, dlqLive, lost, replayerVars, envVars>>

\* executeCommand succeeds.  A deletion needs its object.
Execute(c, i) ==
    /\ At(c, i, "handle") /\ Cmd(i) \notin Forged \cup expired
    /\ Cmd(i) \notin gone
    /\ gone' = gone \cup ({Cmd(i)} \cap Deletes)
    /\ Goto(c, "publish")
    /\ UNCHANGED <<stream, groupVars, responses, dlqLog, dlqLive, lost, replayerVars, envVars>>

\* The keys cannot be fetched, or executeCommand throws: before anything
\* changed, or after the object of a deletion was removed.
HandlerError(c, i) ==
    /\ At(c, i, "handle")
    /\ \/ UNCHANGED gone
       \/ /\ Cmd(i) \notin Forged \cup expired \cup gone
          /\ gone' = gone \cup ({Cmd(i)} \cap Deletes)
    /\ RetryOrBury(c, i)
    /\ UNCHANGED <<stream, groupVars, responses, dlqLog, dlqLive, lost, replayerVars, envVars>>

\* publishResponse of the result, then the ack inside the same try.
Answer(i, kind) == responses' = responses \cup {[src |-> i, kind |-> kind]}

Publish(c, i) ==
    /\ At(c, i, "publish")
    /\ Answer(i, "ok")
    /\ Goto(c, "ack")
    /\ UNCHANGED <<stream, groupVars, gone, dlqLog, dlqLive, lost, replayerVars, envVars>>

PublishFault(c, i) ==
    /\ At(c, i, "publish") /\ Fault
    /\ Answer(i, "ok") \/ UNCHANGED responses
    /\ RetryOrBury(c, i)
    /\ UNCHANGED <<stream, groupVars, gone, dlqLog, dlqLive, lost, replayerVars>>

AckHandled(c, i) ==
    /\ At(c, i, "ack")
    /\ Ack(i)
    /\ Continue(c, i)
    /\ UNCHANGED <<stream, outcomeVars, replayerVars, envVars>>

AckHandledFault(c, i) ==
    /\ At(c, i, "ack") /\ Fault
    /\ Ack(i) \/ UNCHANGED groupVars
    /\ RetryOrBury(c, i)
    /\ UNCHANGED <<stream, outcomeVars, replayerVars>>

-----------------------------------------------------------------------------
(* sendToDlq and handleDlq, then the ack that follows.                      *)

Answerable(i) == Cmd(i) \notin NoPayload \cup BadJson

\* file.command-failed, best effort, to a command with a correlationId: one the
\* schema rejects may be without.
Respond(c, i) ==
    /\ At(c, i, "respond")
    /\ \/ /\ Answerable(i) /\ Answer(i, "failed") /\ UNCHANGED envVars
       \/ /\ Cmd(i) \in Malformed /\ UNCHANGED <<responses, envVars>>
       \/ /\ Answerable(i) /\ Fault /\ UNCHANGED responses
    /\ Goto(c, "bury")
    /\ UNCHANGED <<stream, groupVars, gone, dlqLog, dlqLive, lost, replayerVars>>

AddLetter(i) ==
    /\ dlqLog' = Append(dlqLog, i)
    /\ dlqLive' = dlqLive \cup {Len(dlqLog) + 1}

Bury(c, i) ==
    /\ At(c, i, "bury")
    /\ AddLetter(i)
    /\ Goto(c, "settle")
    /\ UNCHANGED <<stream, groupVars, gone, responses, lost, replayerVars, envVars>>

\* The append fails: handleDlq logs it and returns normally.
BuryFault(c, i) ==
    /\ At(c, i, "bury") /\ Fault
    /\ UNCHANGED <<dlqLog, dlqLive>> \/ AddLetter(i)
    /\ lost' = lost \cup {i}
    /\ Goto(c, "settle")
    /\ UNCHANGED <<stream, groupVars, gone, responses, replayerVars>>

Settle(c, i) ==
    /\ At(c, i, "settle")
    /\ Ack(i)
    /\ Continue(c, i)
    /\ UNCHANGED <<stream, outcomeVars, replayerVars, envVars>>

SettleFault(c, i) ==
    /\ At(c, i, "settle") /\ Fault
    /\ Ack(i) \/ UNCHANGED groupVars
    /\ Abandon(c)
    /\ UNCHANGED <<stream, outcomeVars, replayerVars>>

-----------------------------------------------------------------------------
(* Replaying dead letters: the auto-replayer's tick, the ops endpoint and   *)
(* the script all list first and then reinject one by one, newest first.    *)

AtLetter(r, d, where) ==
    /\ rpc[r] = where
    /\ d \in todo[r]
    /\ \A e \in todo[r] : e <= d

NextLetter(r, d) ==
    /\ todo' = [todo EXCEPT ![r] = @ \ {d}]
    /\ rpc' = [rpc EXCEPT ![r] = IF todo[r] = {d} THEN "idle" ELSE "check"]

List(r) ==
    /\ rpc[r] = "idle" /\ dlqLive # {}
    /\ todo' = [todo EXCEPT ![r] = dlqLive]
    /\ rpc' = [rpc EXCEPT ![r] = "check"]
    /\ UNCHANGED <<stream, groupVars, loopVars, outcomeVars, envVars>>

\* XRANGE finds no entry, or one without a payload, or fails: the error is
\* logged.
SkipLetter(r, d) ==
    /\ AtLetter(r, d, "check")
    /\ \/ (d \notin dlqLive \/ Cmd(dlqLog[d]) \in NoPayload) /\ UNCHANGED envVars
       \/ Fault
    /\ NextLetter(r, d)
    /\ UNCHANGED <<stream, groupVars, loopVars, outcomeVars>>

CheckLetter(r, d) ==
    /\ AtLetter(r, d, "check")
    /\ d \in dlqLive /\ Cmd(dlqLog[d]) \notin NoPayload
    /\ rpc' = [rpc EXCEPT ![r] = "xadd"]
    /\ UNCHANGED <<stream, groupVars, loopVars, outcomeVars, todo, envVars>>

Reinject(r, d) ==
    /\ AtLetter(r, d, "xadd")
    /\ AddEntry(Cmd(dlqLog[d]), d)
    /\ rpc' = [rpc EXCEPT ![r] = "xdel"]
    /\ UNCHANGED <<groupVars, loopVars, outcomeVars, todo, envVars>>

\* Mutation: a failed XADD is not noticed, and the dead letter is removed.
ReinjectUnchecked(r, d) ==
    /\ AtLetter(r, d, "xadd") /\ Fault
    /\ AddEntry(Cmd(dlqLog[d]), d) \/ UNCHANGED stream
    /\ rpc' = [rpc EXCEPT ![r] = "xdel"]
    /\ UNCHANGED <<groupVars, loopVars, outcomeVars, todo>>

ReinjectFault(r, d) ==
    /\ AtLetter(r, d, "xadd") /\ Fault
    /\ AddEntry(Cmd(dlqLog[d]), d) \/ UNCHANGED stream
    /\ NextLetter(r, d)
    /\ UNCHANGED <<groupVars, loopVars, outcomeVars>>

RemoveLetter(r, d) ==
    /\ AtLetter(r, d, "xdel")
    /\ dlqLive' = dlqLive \ {d}
    /\ NextLetter(r, d)
    /\ UNCHANGED <<stream, groupVars, loopVars, gone, responses, dlqLog, lost, envVars>>

RemoveLetterFault(r, d) ==
    /\ AtLetter(r, d, "xdel") /\ Fault
    /\ NextLetter(r, d)
    /\ UNCHANGED <<stream, groupVars, loopVars, outcomeVars>>

\* A replaying process dies, as often as it likes.
ReplayerCrash(r) ==
    /\ rpc[r] # "idle"
    /\ todo' = [todo EXCEPT ![r] = {}]
    /\ rpc' = [rpc EXCEPT ![r] = "idle"]
    /\ UNCHANGED <<stream, groupVars, loopVars, outcomeVars, envVars>>

-----------------------------------------------------------------------------

Message(c, i) ==
    \/ TakePill(c, i) \/ TakeMalformed(c, i) \/ TakeCommand(c, i)
    \/ Reject(c, i) \/ Execute(c, i) \/ HandlerError(c, i)
    \/ Publish(c, i) \/ PublishFault(c, i)
    \/ AckHandled(c, i) \/ AckHandledFault(c, i)
    \/ Respond(c, i) \/ Bury(c, i) \/ BuryFault(c, i)
    \/ Settle(c, i) \/ SettleFault(c, i)

Loop(c) ==
    \/ Reclaim(c) \/ Read(c) \/ ReclaimFault(c) \/ ReadFault(c)
    \/ \E i \in Ids : Message(c, i)

Letter(r, d) ==
    \/ SkipLetter(r, d) \/ CheckLetter(r, d)
    \/ Reinject(r, d) \/ ReinjectFault(r, d)
    \/ RemoveLetter(r, d) \/ RemoveLetterFault(r, d)

Next ==
    \/ \E m \in Commands : Produce(m) \/ Expire(m)
    \/ \E i \in Ids : GoIdle(i)
    \/ \E c \in Consumers : Start(c) \/ Stop(c) \/ Crash(c) \/ Loop(c)
    \/ \E r \in Replayers : List(r) \/ ReplayerCrash(r)
    \/ \E r \in Replayers : \E d \in todo[r] : Letter(r, d)

Spec == Init /\ [][Next]_vars

\* The container runtime restarts a worker, the event loop keeps turning and
\* pending entries age.
Fairness ==
    /\ \A c \in Consumers : WF_vars(Start(c)) /\ WF_vars(Loop(c))
    /\ \A i \in Ids : WF_vars(GoIdle(i))

FairSpec == Spec /\ Fairness
-----------------------------------------------------------------------------

GroupTypeOK ==
    /\ stream \in Seq(Items)
    /\ Len(stream) <= MaxEntries
    /\ last \in 0..Len(stream)
    /\ count \in [Ids -> Nat]
    /\ idle \subseteq Ids

LoopTypeOK ==
    /\ running \in [Consumers -> BOOLEAN]
    /\ pc \in [Consumers -> {"stopped", "reclaim", "read", "take", "handle",
                             "publish", "ack", "respond", "bury", "settle"}]
    /\ phase \in [Consumers -> {"reclaim", "read"}]
    /\ batch \in [Consumers -> SUBSET Ids]
    /\ seen \in [Consumers -> Nat]

OutcomeTypeOK ==
    /\ gone \subseteq Deletes
    /\ responses \subseteq [src : Ids, kind : {"ok", "failed"}]
    /\ dlqLog \in Seq(Ids)
    /\ dlqLive \subseteq 1..Len(dlqLog)
    /\ lost \subseteq Ids

ReplayerTypeOK ==
    /\ todo \in [Replayers -> SUBSET (1..Len(dlqLog))]
    /\ rpc \in [Replayers -> {"idle", "check", "xadd", "xdel"}]

EnvTypeOK ==
    /\ expired \subseteq Commands
    /\ crashes \in 0..MaxCrashes
    /\ faults \in 0..MaxFaults

\* Every variable has its type; in particular the group's cursor never passes
\* the end of the stream and a replayer only holds letters that were written.
TypeOK ==
    /\ GroupTypeOK /\ LoopTypeOK /\ OutcomeTypeOK /\ ReplayerTypeOK /\ EnvTypeOK

Answered(i) == [src |-> i, kind |-> "ok"] \in responses
Dead(i)     == \E d \in DOMAIN dlqLog : dlqLog[d] = i

Reinjected(d) == \E j \in DOMAIN stream : stream[j].dead = d

\* An acknowledged command has been answered or is a dead letter; the one way
\* out of both is a dead-letter append that failed, which handleDlq only logs
\* (media-command.worker.ts handleDlq, event-consumer.ts processMessages).
AckedIsSettled ==
    \A i \in 1..Len(stream) :
        Acked(i) /\ Cmd(i) # Pill => Answered(i) \/ Dead(i) \/ i \in lost

\* A dead letter leaves its stream only once a copy of it is back on the
\* command stream, under any overlap of replayers, crashes and Redis errors
\* (media-command-dlq.ts replayMediaCommandDlqEntry).
RemovedIsReinjected ==
    \A d \in DOMAIN dlqLog :
        d \notin dlqLive => Reinjected(d)

\* The retry policy ends: an entry is delivered MaxRetries times, plus once
\* for each other replica that overlaps, each process that dies and each
\* Redis call that fails, and never more (event-consumer.ts processMessages).
DeliveriesBounded ==
    \A i \in Ids :
        count[i] <= MaxRetries + Cardinality(Consumers) - 1 + crashes + faults

\* Every entry of the stream is eventually acknowledged, although handlers may
\* fail for ever and replicas die with entries in hand (event-consumer.ts
\* reclaimPending).
EveryEntrySettled ==
    \A i \in Ids : i <= Len(stream) ~> i <= Len(stream) /\ Acked(i)

\* Only delivered entries are in hand, pending or dead-lettered, and only
\* pending ones can be reclaimed.
PositionsOK ==
    /\ \A c \in Consumers : batch[c] \subseteq 1..last
    /\ \A i \in Ids : count[i] > 0 => i <= last
    /\ \A i \in idle : count[i] > 0
    /\ \A d \in DOMAIN dlqLog : dlqLog[d] <= last

\* A replica about to acknowledge has answered the entry or buried it.
AckIsEarned ==
    \A c \in Consumers, i \in Ids :
        /\ At(c, i, "ack") => Answered(i)
        /\ At(c, i, "settle") => Cmd(i) = Pill \/ Dead(i) \/ i \in lost

\* A replayer about to delete a letter has put its copy on the stream.
RemovalIsEarned ==
    \A r \in Replayers : \A d \in todo[r] : AtLetter(r, d, "xdel") => Reinjected(d)

\* The inductive invariant of the proofs: an acknowledgement, and a deletion
\* from the dead letters, is earned by the step before it, and a step of
\* another replica never takes that back (event-consumer.ts processMessages,
\* media-command-dlq.ts replayMediaCommandDlqEntry).
IInv ==
    /\ TypeOK /\ PositionsOK
    /\ AckIsEarned /\ AckedIsSettled
    /\ RemovalIsEarned /\ RemovedIsReinjected

\* The channel is what CommandDelivery promises of it.
EntryOutcome(i) ==
    {o \in {"answered", "dead", "logged"} :
        \/ o = "answered" /\ Answered(i)
        \/ o = "dead" /\ Dead(i)
        \/ o = "logged" /\ i \in lost}

Carries(i) == i <= Len(stream) /\ Cmd(i) # Pill

Delivery == INSTANCE CommandDelivery WITH
    Entries  <- Ids,
    accepted <- {i \in Ids : Carries(i)},
    outcome  <- [i \in Ids |-> EntryOutcome(i)],
    closed   <- {i \in Ids : Carries(i) /\ Acked(i)}

\* Every step of replicas, replayers and faults is a step of the promise or
\* leaves it alone (event-consumer.ts, media-command-dlq.ts).
ImplementsDelivery == Delivery!Spec
=============================================================================

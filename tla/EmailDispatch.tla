---------------------------- MODULE EmailDispatch ----------------------------
(***************************************************************************)
(* The mail engine: a producer's command is queued in BullMQ under its id, *)
(* answered with a receipt, and sent by a worker over SMTP with retries.   *)
(*                                                                         *)
(* A call of dispatchEmail makes two round trips to Redis (add, then       *)
(* getJob); a worker slot takes a job, checks its deadline, talks to the   *)
(* relay and reports the outcome to BullMQ.  Between any two of these the  *)
(* others act, a process may die and a job's lock may expire.              *)
(***************************************************************************)
EXTENDS Integers, FiniteSets

CONSTANTS
    Ids,           \* job ids: producer and uuid, so producers never collide
    Mails,         \* request bodies, deadline included (one fingerprint each)
    Urgent,        \* those whose deadline comes within the time modelled
    Callers,       \* calls of dispatchEmail in progress
    Slots,         \* jobs the workers process at once
    NoSlot,
    Attempts,      \* attempts of the queue's default job options
    MaxStalls,     \* BullMQ's maxStalledCount
    MaxDispatches  \* bound: commands received

ASSUME EmailConstantsOK ==
    /\ NoSlot \notin Slots /\ IsFiniteSet(Slots) /\ Urgent \subseteq Mails
    /\ Ids # {} /\ Mails # {}
    /\ Attempts \in Nat \ {0} /\ MaxStalls \in Nat
    /\ MaxDispatches \in Nat

VARIABLES
    expired,    \* bodies whose deadline has passed
    job,        \* the BullMQ record of an id
    call,       \* what a call of dispatchEmail is doing
    slot,       \* what a worker slot is doing
    receipts,   \* commands answered 202
    conflicts,  \* commands answered 409
    refused,    \* commands BullMQ has given up on
    tally,      \* of each command: whether it was ever queued, whether the relay
                \* ever accepted it, and how often it still may: once, and once
                \* more for each cause it is given
    dispatches

vars == <<expired, job, call, slot, receipts, conflicts, refused, tally, dispatches>>
bookVars == <<receipts, conflicts, dispatches>>

Commands == Ids \X Mails
NoJob(m) == [state |-> "none", mail |-> m, made |-> 0, stalls |-> 0, owner |-> NoSlot]
AnyId    == CHOOSE j \in Ids : TRUE
AnyMail  == CHOOSE m \in Mails : TRUE
IdleCall == [pc |-> "idle", id |-> AnyId, mail |-> AnyMail]
IdleSlot == IdleCall

Init ==
    /\ expired = {}
    /\ job = [j \in Ids |-> NoJob(AnyMail)]
    /\ call = [c \in Callers |-> IdleCall] /\ slot = [s \in Slots |-> IdleSlot]
    /\ receipts = {} /\ conflicts = {} /\ refused = {}
    /\ tally = [x \in Commands |-> [queued |-> FALSE, sent |-> FALSE, due |-> 1]]
    /\ dispatches = 0

\* A deadline passes.
Expire(m) ==
    /\ m \in Urgent \ expired
    /\ expired' = expired \cup {m}
    /\ UNCHANGED <<job, call, slot, bookVars, refused, tally>>

-----------------------------------------------------------------------------
(* dispatchEmail.                                                           *)

\* A command past its deadline is answered 400.
Dispatch(c, j, m) ==
    /\ call[c].pc = "idle" /\ dispatches < MaxDispatches
    /\ m \notin expired
    /\ call' = [call EXCEPT ![c] = [pc |-> "add", id |-> j, mail |-> m]]
    /\ dispatches' = dispatches + 1
    /\ UNCHANGED <<expired, job, slot, receipts, conflicts, refused, tally>>

Enqueue(j, m) ==
    /\ job' = [job EXCEPT ![j] = [NoJob(m) EXCEPT !.state = "wait"]]
    /\ tally' = [tally EXCEPT ![<<j, m>>].queued = TRUE]

\* Mutation: a finished record does not stop the command.
AddOverFinished(c) == LET j == call[c].id IN
    /\ call[c].pc = "add"
    /\ IF job[j].state \in {"none", "completed", "failed"}
         THEN Enqueue(j, call[c].mail) ELSE UNCHANGED <<job, tally>>
    /\ call' = [call EXCEPT ![c].pc = "read"]
    /\ UNCHANGED <<expired, slot, bookVars, refused>>

\* queue.add does nothing when the id has a record; a Redis error (503) may
\* come before or after it took effect.
Add(c) == LET j == call[c].id IN
    /\ call[c].pc = "add"
    /\ \/ /\ IF job[j].state = "none" THEN Enqueue(j, call[c].mail) ELSE UNCHANGED <<job, tally>>
          /\ call' = [call EXCEPT ![c].pc = "read"] \/ call' = [call EXCEPT ![c] = IdleCall]
       \/ UNCHANGED <<job, tally>> /\ call' = [call EXCEPT ![c] = IdleCall]
    /\ UNCHANGED <<expired, slot, bookVars, refused>>

\* Mutation: any record under the id is taken for the command's own.
ReadUnchecked(c) == LET j == call[c].id IN
    /\ call[c].pc = "read" /\ job[j].state # "none"
    /\ call' = [call EXCEPT ![c] = IdleCall]
    /\ receipts' = receipts \cup {<<j, call[c].mail>>}
    /\ UNCHANGED <<expired, job, slot, conflicts, refused, tally, dispatches>>

\* The record that won is compared with the command; none, or an error, is a
\* 503.
Read(c) == LET j == call[c].id  x == <<j, call[c].mail>> IN
    /\ call[c].pc = "read"
    /\ call' = [call EXCEPT ![c] = IdleCall]
    /\ \/ /\ job[j].state # "none" /\ job[j].mail = call[c].mail
          /\ receipts' = receipts \cup {x} /\ UNCHANGED conflicts
       \/ /\ job[j].state # "none" /\ job[j].mail # call[c].mail
          /\ conflicts' = conflicts \cup {x} /\ UNCHANGED receipts
       \/ UNCHANGED <<receipts, conflicts>>
    /\ UNCHANGED <<expired, job, slot, refused, tally, dispatches>>

-----------------------------------------------------------------------------
(* The worker: processEmailJob and sendRawEmail.                            *)

Command(s) == <<slot[s].id, slot[s].mail>>

Take(s, j) ==
    /\ slot[s].pc = "idle" /\ job[j].state = "wait"
    /\ job' = [job EXCEPT ![j].state = "active", ![j].owner = s]
    /\ slot' = [slot EXCEPT ![s] = [pc |-> "check", id |-> j, mail |-> job[j].mail]]
    /\ UNCHANGED <<expired, call, bookVars, refused, tally>>

Turn(s, pc) == slot' = [slot EXCEPT ![s].pc = pc]

\* A job past its deadline is given up without talking to the relay.
Check(s) ==
    /\ slot[s].pc = "check"
    /\ Turn(s, IF slot[s].mail \in expired THEN "fail" ELSE "send")
    /\ UNCHANGED <<expired, job, call, bookVars, refused, tally>>

\* One SMTP transaction, never repeated here: accepted, accepted but the
\* acknowledgement lost, accepted for some recipients and rejected for others,
\* which fails the job for good although part of it is on its way, refused for
\* good (5xx, or every recipient), or failed in a way that may pass.
Send(s) == LET x == Command(s) IN
    /\ slot[s].pc = "send"
    /\ \/ /\ tally' = [tally EXCEPT ![x].sent = TRUE, ![x].due = @ - 1]
          /\ Turn(s, "complete") \/ Turn(s, "fail")
       \/ tally' = [tally EXCEPT ![x].sent = TRUE] /\ Turn(s, "retry")
       \/ UNCHANGED tally /\ (Turn(s, "fail") \/ Turn(s, "retry"))
    /\ UNCHANGED <<expired, job, call, bookVars, refused>>

-----------------------------------------------------------------------------
(* BullMQ.                                                                  *)

Holds(s) == job[slot[s].id].state = "active" /\ job[slot[s].id].owner = s

\* What a finished record has counted is never read again.
Finish(j, outcome) == job' = [job EXCEPT ![j] = [NoJob(@.mail) EXCEPT !.state = outcome]]

RecordCompleted(j) == Finish(j, "completed")

RecordFailed(j) == Finish(j, "failed") /\ refused' = refused \cup {<<j, job[j].mail>>}

\* As other commands finish, the oldest finished records go, beyond the count
\* or the age kept of each outcome: sooner than a deadline, which may lie
\* seven days ahead.  Whoever repeats the command then queues it again.
Forget(j) ==
    /\ job[j].state \in {"completed", "failed"}
    /\ job' = [job EXCEPT ![j] = NoJob(AnyMail)]
    /\ tally' = [x \in Commands |->
                   IF x[1] = j THEN [tally[x] EXCEPT !.due = @ + 1] ELSE tally[x]]
    /\ UNCHANGED <<expired, call, slot, bookVars, refused>>

\* A slot that has lost its lock has no say.
Complete(s) == LET j == slot[s].id IN
    /\ slot[s].pc = "complete"
    /\ slot' = [slot EXCEPT ![s] = IdleSlot]
    /\ \/ Holds(s) /\ RecordCompleted(j)
       \/ ~Holds(s) /\ UNCHANGED job
    /\ UNCHANGED <<expired, call, bookVars, refused, tally>>

Fail(s) == LET j == slot[s].id IN
    /\ slot[s].pc = "fail"
    /\ slot' = [slot EXCEPT ![s] = IdleSlot]
    /\ \/ Holds(s) /\ RecordFailed(j)
       \/ ~Holds(s) /\ UNCHANGED <<job, refused>>
    /\ UNCHANGED <<expired, call, bookVars, tally>>

Backoff(j, made) ==
    job' = [job EXCEPT ![j].state = "delayed", ![j].owner = NoSlot, ![j].made = made]

\* Mutation: an attempt that may be repeated is not counted.
RetryUncounted(s) == LET j == slot[s].id IN
    /\ slot[s].pc = "retry"
    /\ slot' = [slot EXCEPT ![s] = IdleSlot]
    /\ IF Holds(s) THEN Backoff(j, job[j].made) ELSE UNCHANGED job
    /\ UNCHANGED <<expired, call, bookVars, refused, tally>>

\* Mutation: one attempt more than configured.
RetryOnceMore(s) == LET j == slot[s].id  made == job[j].made + 1 IN
    /\ slot[s].pc = "retry"
    /\ slot' = [slot EXCEPT ![s] = IdleSlot]
    /\ \/ /\ Holds(s) /\ made <= Attempts
          /\ Backoff(j, made) /\ UNCHANGED refused
       \/ Holds(s) /\ made > Attempts /\ RecordFailed(j)
       \/ ~Holds(s) /\ UNCHANGED <<job, refused>>
    /\ UNCHANGED <<expired, call, bookVars, tally>>

Retry(s) == LET j == slot[s].id  made == job[j].made + 1 IN
    /\ slot[s].pc = "retry"
    /\ slot' = [slot EXCEPT ![s] = IdleSlot]
    /\ \/ /\ Holds(s) /\ made < Attempts
          /\ Backoff(j, made) /\ UNCHANGED refused
       \/ Holds(s) /\ made >= Attempts /\ RecordFailed(j)
       \/ ~Holds(s) /\ UNCHANGED <<job, refused>>
    /\ UNCHANGED <<expired, call, bookVars, tally>>

\* The backoff is over.
Promote(j) ==
    /\ job[j].state = "delayed"
    /\ job' = [job EXCEPT ![j].state = "wait"]
    /\ UNCHANGED <<expired, call, slot, bookVars, refused, tally>>

\* The lock of an active job expires: its worker has died, or its event loop
\* was blocked.  How far the attempt went is not known.
Stall(j) == LET n == job[j].stalls + 1 IN
    /\ job[j].state = "active"
    /\ \/ /\ n <= MaxStalls
          /\ job' = [job EXCEPT ![j].state = "wait", ![j].owner = NoSlot, ![j].stalls = n]
          /\ tally' = [tally EXCEPT ![<<j, job[j].mail>>].due = @ + 1]
          /\ UNCHANGED refused
       \/ n > MaxStalls /\ RecordFailed(j) /\ UNCHANGED tally
    /\ UNCHANGED <<expired, call, slot, bookVars>>

\* A worker dies, or cannot report an outcome.
SlotCrash(s) ==
    /\ slot[s].pc # "idle"
    /\ slot' = [slot EXCEPT ![s] = IdleSlot]
    /\ UNCHANGED <<expired, job, call, bookVars, refused, tally>>

CallCrash(c) ==
    /\ call[c].pc # "idle"
    /\ call' = [call EXCEPT ![c] = IdleCall]
    /\ UNCHANGED <<expired, job, slot, bookVars, refused, tally>>

-----------------------------------------------------------------------------

Process(s) == Check(s) \/ Send(s) \/ Complete(s) \/ Fail(s) \/ Retry(s)

Next ==
    \/ \E m \in Mails : Expire(m)
    \/ \E c \in Callers :
          \/ \E j \in Ids, m \in Mails : Dispatch(c, j, m)
          \/ Add(c) \/ Read(c) \/ CallCrash(c)
    \/ \E s \in Slots : (\E j \in Ids : Take(s, j)) \/ Process(s) \/ SlotCrash(s)
    \/ \E j \in Ids : Promote(j) \/ Stall(j) \/ Forget(j)

Spec == Init /\ [][Next]_vars

Orphan(j) == \A s \in Slots : ~(slot[s].pc # "idle" /\ slot[s].id = j /\ job[j].owner = s)

\* Workers run (docker restarts them), timers of BullMQ fire.
Fairness ==
    /\ \A j \in Ids : /\ WF_vars(\E s \in Slots : Take(s, j))
                      /\ WF_vars(Promote(j)) /\ WF_vars(Orphan(j) /\ Stall(j))
    /\ \A s \in Slots : WF_vars(Process(s))

FairSpec == Spec /\ Fairness
-----------------------------------------------------------------------------

JobType ==
    job \in [Ids -> [state  : {"none", "wait", "active", "delayed", "completed", "failed"},
                     mail   : Mails,
                     made   : 0..(Attempts - 1),
                     stalls : 0..MaxStalls,
                     owner  : Slots \cup {NoSlot}]]

ActorType ==
    /\ call \in [Callers -> [pc : {"idle", "add", "read"}, id : Ids, mail : Mails]]
    /\ slot \in [Slots -> [pc : {"idle", "check", "send", "complete", "fail", "retry"},
                           id : Ids, mail : Mails]]

BookType ==
    /\ expired \subseteq Urgent
    /\ receipts \subseteq Commands /\ conflicts \subseteq Commands /\ refused \subseteq Commands
    /\ tally \in [Commands -> [queued : BOOLEAN, sent : BOOLEAN, due : Int]]
    /\ dispatches \in 0..MaxDispatches

\* Every variable has its type; a job that waits or is active has used up fewer
\* attempts than the queue grants, so the one it makes next is still granted.
TypeOK == JobType /\ ActorType /\ BookType

\* The relay accepts a mail again only for a reason no one in this code can
\* rule out: an acknowledgement or a lock was lost, or the queue has forgotten
\* the finished record and the producer asked again (email.service.ts,
\* email.mailer.ts lines 74-81).
ResentForCause ==
    \A x \in Commands : tally[x].due >= 0

\* What a producer is told is true of its own mail: a receipt is given for a
\* body that was queued under the id, a conflict only when another body was
\* (email.service.ts lines 23-27), also when equal ids race.
AnswersAreTrue ==
    /\ \A x \in receipts : tally[x].queued
    /\ \A x \in conflicts : \E m \in Mails \ {x[2]} : tally[<<x[1], m>>].queued

\* A mail with a receipt is sent or given up: retries, backoff, stalls and
\* dead workers do not leave it in between (email.queue.ts attempts).
ReceiptSettles ==
    \A x \in Commands :
        x \in receipts ~> tally[x].sent \/ x \in refused
=============================================================================

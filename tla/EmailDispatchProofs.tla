-------------------------- MODULE EmailDispatchProofs --------------------------
(***************************************************************************)
(* Proofs about EmailDispatch, for any number of ids, mails, calls, worker *)
(* slots, attempts and stalls.                                             *)
(***************************************************************************)
EXTENDS EmailDispatch, FiniteSetTheorems, TLAPS

-----------------------------------------------------------------------------
(* Type correctness.  The records that mix booleans and numbers are taken   *)
(* apart once, here.                                                        *)

TallyEntry == [queued : BOOLEAN, sent : BOOLEAN, due : Int]
TallyType  == tally \in [Commands -> TallyEntry]

JobRecord ==
    [state  : {"none", "wait", "active", "delayed", "completed", "failed"},
     mail   : Mails,
     made   : 0..(Attempts - 1),
     stalls : 0..MaxStalls,
     owner  : Slots \cup {NoSlot}]

LEMMA AnyOnes == AnyId \in Ids /\ AnyMail \in Mails /\ IdleCall \in [pc : {"idle"}, id : Ids, mail : Mails]
  BY EmailConstantsOK DEF EmailConstantsOK, AnyId, AnyMail, IdleCall

LEMMA NoJobTyped ==
    ASSUME NEW m \in Mails, NEW st \in {"none", "wait", "completed", "failed"}
    PROVE  /\ [NoJob(m) EXCEPT !.state = st] \in JobRecord
           /\ [NoJob(m) EXCEPT !.state = st].state = st
           /\ [NoJob(m) EXCEPT !.state = st].mail = m
           /\ NoJob(m) \in JobRecord /\ NoJob(m).state = "none"
  BY EmailConstantsOK DEF EmailConstantsOK, NoJob, JobRecord

LEMMA EntryMade ==
    ASSUME NEW q \in BOOLEAN, NEW s \in BOOLEAN, NEW d \in Int
    PROVE  [queued |-> q, sent |-> s, due |-> d] \in TallyEntry
  BY Zenon DEF TallyEntry

LEMMA EntryFields ==
    ASSUME TallyType, NEW x \in Commands
    PROVE  /\ tally[x].queued \in BOOLEAN /\ tally[x].sent \in BOOLEAN /\ tally[x].due \in Int
           /\ tally[x] \in TallyEntry
  <1>1. tally[x] \in TallyEntry
    BY DEF TallyType
  <1> QED
    BY <1>1 DEF TallyEntry

LEMMA TallyChanged ==
    ASSUME TallyType, NEW x \in Commands, NEW r \in TallyEntry, tally' = [tally EXCEPT ![x] = r]
    PROVE  TallyType' /\ \A y \in Commands : tally'[y] = IF y = x THEN r ELSE tally[y]
  BY DEF TallyType

\* What may happen to the account of a command: it is queued, sent, or given
\* another cause to be sent.
LEMMA TallySteps ==
    ASSUME TallyType, NEW x \in Commands,
           \/ tally' = [tally EXCEPT ![x].queued = TRUE]
           \/ tally' = [tally EXCEPT ![x].sent = TRUE, ![x].due = @ - 1]
           \/ tally' = [tally EXCEPT ![x].sent = TRUE]
           \/ tally' = [tally EXCEPT ![x].due = @ + 1]
    PROVE  /\ TallyType'
           /\ \A y \in Commands : (tally[y].queued => tally'[y].queued)
           /\ \A y \in Commands : y # x => tally'[y] = tally[y]
  <1>1. tally[x] \in TallyEntry /\ tally[x].due + 1 \in Int /\ tally[x].due - 1 \in Int
    BY EntryFields
  <1>2. CASE tally' = [tally EXCEPT ![x].queued = TRUE]
    <2> DEFINE r == [queued |-> TRUE, sent |-> tally[x].sent, due |-> tally[x].due]
    <2>1. r \in TallyEntry
      BY EntryFields, EntryMade, Zenon
    <2>2. tally' = [tally EXCEPT ![x] = r]
      BY <1>1, <1>2 DEF TallyType, TallyEntry
    <2> HIDE DEF r
    <2>3. TallyType' /\ \A y \in Commands : tally'[y] = IF y = x THEN r ELSE tally[y]
      BY <2>1, <2>2, TallyChanged
    <2>4. r.queued
      BY DEF r
    <2> QED
      BY <2>3, <2>4
  <1>3. CASE tally' = [tally EXCEPT ![x].sent = TRUE, ![x].due = @ - 1]
    <2> DEFINE r == [queued |-> tally[x].queued, sent |-> TRUE, due |-> tally[x].due - 1]
    <2>1. r \in TallyEntry
      BY <1>1, EntryFields, EntryMade, Zenon
    <2>2. tally' = [tally EXCEPT ![x] = r]
      BY <1>1, <1>3 DEF TallyType, TallyEntry
    <2>3. r.queued = tally[x].queued
      OBVIOUS
    <2> HIDE DEF r
    <2>4. TallyType' /\ \A y \in Commands : tally'[y] = IF y = x THEN r ELSE tally[y]
      BY <2>1, <2>2, TallyChanged
    <2> QED
      BY <2>3, <2>4
  <1>4. CASE tally' = [tally EXCEPT ![x].sent = TRUE]
    <2> DEFINE r == [queued |-> tally[x].queued, sent |-> TRUE, due |-> tally[x].due]
    <2>1. r \in TallyEntry
      BY EntryFields, EntryMade, Zenon
    <2>2. tally' = [tally EXCEPT ![x] = r]
      BY <1>1, <1>4 DEF TallyType, TallyEntry
    <2>3. r.queued = tally[x].queued
      OBVIOUS
    <2> HIDE DEF r
    <2>4. TallyType' /\ \A y \in Commands : tally'[y] = IF y = x THEN r ELSE tally[y]
      BY <2>1, <2>2, TallyChanged
    <2> QED
      BY <2>3, <2>4
  <1>5. CASE tally' = [tally EXCEPT ![x].due = @ + 1]
    <2> DEFINE r == [queued |-> tally[x].queued, sent |-> tally[x].sent, due |-> tally[x].due + 1]
    <2>1. r \in TallyEntry
      BY <1>1, EntryFields, EntryMade, Zenon
    <2>2. tally' = [tally EXCEPT ![x] = r]
      BY <1>1, <1>5 DEF TallyType, TallyEntry
    <2>3. r.queued = tally[x].queued
      OBVIOUS
    <2> HIDE DEF r
    <2>4. TallyType' /\ \A y \in Commands : tally'[y] = IF y = x THEN r ELSE tally[y]
      BY <2>1, <2>2, TallyChanged
    <2> QED
      BY <2>3, <2>4
  <1> QED
    BY <1>2, <1>3, <1>4, <1>5

LEMMA DueSteps ==
    ASSUME TallyType, NEW x \in Commands
    PROVE  /\ tally' = [tally EXCEPT ![x].queued = TRUE] =>
                 \A y \in Commands : tally'[y].due = tally[y].due
           /\ tally' = [tally EXCEPT ![x].sent = TRUE] =>
                 \A y \in Commands : tally'[y].due = tally[y].due
           /\ tally' = [tally EXCEPT ![x].sent = TRUE, ![x].due = @ - 1] =>
                 \A y \in Commands : tally'[y].due = IF y = x THEN tally[y].due - 1 ELSE tally[y].due
           /\ tally' = [tally EXCEPT ![x].due = @ + 1] =>
                 \A y \in Commands : tally'[y].due = IF y = x THEN tally[y].due + 1 ELSE tally[y].due
  BY DEF TallyType, TallyEntry

LEMMA Forgotten ==
    ASSUME TypeOK, NEW j \in Ids, Forget(j)
    PROVE  /\ TallyType'
           /\ \A x \in Commands : /\ tally[x].queued => tally'[x].queued
                                  /\ tally'[x].due = IF x[1] = j THEN tally[x].due + 1 ELSE tally[x].due
  <1>1. TallyType
    BY DEF TypeOK, BookType, TallyType, TallyEntry
  <1> DEFINE More(x) == [queued |-> tally[x].queued, sent |-> tally[x].sent, due |-> tally[x].due + 1]
  <1>2. \A x \in Commands : tally'[x] = IF x[1] = j THEN More(x) ELSE tally[x]
    BY <1>1 DEF Forget, TallyType, TallyEntry
  <1>3. \A x \in Commands : More(x) \in TallyEntry
    <2> TAKE x \in Commands
    <2>1. tally[x].due + 1 \in Int
      BY <1>1, EntryFields
    <2> QED
      BY <1>1, <2>1, EntryFields, EntryMade, Zenon
  <1>4. \A x \in Commands : More(x).queued = tally[x].queued /\ More(x).due = tally[x].due + 1
    OBVIOUS
  <1>5. tally' = [x \in Commands |-> tally'[x]]
    BY DEF Forget
  <1> HIDE DEF More
  <1>6. TallyType'
    BY <1>1, <1>2, <1>3, <1>5 DEF TallyType
  <1> QED
    BY <1>2, <1>4, <1>6

-----------------------------------------------------------------------------

LEMMA EmailTypedInit == Init => TypeOK
  <1> SUFFICES ASSUME Init
               PROVE  TypeOK
    OBVIOUS
  <1>1. JobType
    BY AnyOnes, NoJobTyped DEF Init, JobType, JobRecord
  <1>2. ActorType
    BY AnyOnes DEF Init, ActorType, IdleSlot
  <1>3. BookType
    <2>1. [queued |-> FALSE, sent |-> FALSE, due |-> 1] \in TallyEntry
      <3>1. 1 \in Int /\ FALSE \in BOOLEAN
        OBVIOUS
      <3> QED
        BY <3>1, EntryMade, Zenon
    <2>2. tally \in [Commands -> TallyEntry]
      BY <2>1, Zenon DEF Init
    <2> QED
      BY <2>2, EmailConstantsOK DEF Init, BookType, TallyEntry, EmailConstantsOK
  <1> QED
    BY <1>1, <1>2, <1>3 DEF TypeOK

LEMMA Booked == BookType <=> /\ TallyType /\ expired \subseteq Urgent
                             /\ receipts \subseteq Commands /\ conflicts \subseteq Commands
                             /\ refused \subseteq Commands /\ dispatches \in 0..MaxDispatches
  BY DEF BookType, TallyType, TallyEntry

LEMMA JobChanged ==
    ASSUME JobType, NEW j \in Ids, NEW r \in JobRecord, job' = [job EXCEPT ![j] = r]
    PROVE  JobType' /\ \A k \in Ids : job'[k] = IF k = j THEN r ELSE job[k]
  BY DEF JobType, JobRecord

\* What the queue does with the record of a job.
LEMMA JobFinished ==
    ASSUME JobType, NEW j \in Ids, NEW o \in {"completed", "failed"}, Finish(j, o)
    PROVE  /\ JobType'
           /\ \A k \in Ids : job'[k].mail = job[k].mail /\ (k # j => job'[k] = job[k])
           /\ job'[j].state = o /\ job'[j].owner = NoSlot
  <1> DEFINE m == job[j].mail
             r == [state |-> o, mail |-> m, made |-> 0, stalls |-> 0, owner |-> NoSlot]
  <1>1. m \in Mails
    BY DEF JobType
  <1>2. job' = [job EXCEPT ![j] = r]
    <2>1. [NoJob(m) EXCEPT !.state = o] = r
      BY DEF NoJob
    <2>2. job' = [job EXCEPT ![j] = [NoJob(m) EXCEPT !.state = o]]
      BY Zenon DEF Finish
    <2> QED
      BY <2>1, <2>2, Zenon
  <1> HIDE DEF m
  <1>3. r \in JobRecord
    BY <1>1, EmailConstantsOK DEF JobRecord, EmailConstantsOK
  <1>4. r.mail = m /\ r.state = o /\ r.owner = NoSlot
    OBVIOUS
  <1> HIDE DEF r
  <1>5. JobType' /\ \A k \in Ids : job'[k] = IF k = j THEN r ELSE job[k]
    BY <1>2, <1>3, JobChanged
  <1> QED
    BY <1>4, <1>5 DEF m

LEMMA JobDelayed ==
    ASSUME JobType, NEW j \in Ids, NEW n \in 0..(Attempts - 1), Backoff(j, n)
    PROVE  /\ JobType'
           /\ \A k \in Ids : job'[k].mail = job[k].mail /\ (k # j => job'[k] = job[k])
           /\ job'[j].state = "delayed"
  BY DEF Backoff, JobType

LEMMA JobMoved ==
    ASSUME JobType, NEW j \in Ids,
           \/ \E s \in Slots : job' = [job EXCEPT ![j].state = "active", ![j].owner = s]
           \/ job' = [job EXCEPT ![j].state = "wait"]
           \/ \E n \in 0..MaxStalls : job' = [job EXCEPT ![j].state = "wait", ![j].owner = NoSlot,
                                                       ![j].stalls = n]
    PROVE  /\ JobType'
           /\ \A k \in Ids : job'[k].mail = job[k].mail /\ (k # j => job'[k] = job[k])
  BY DEF JobType

LEMMA EmailTypedNext == TypeOK /\ [Next]_vars => TypeOK'
  <1> SUFFICES ASSUME TypeOK, [Next]_vars
               PROVE  TypeOK'
    OBVIOUS
  <1>0. JobType /\ ActorType /\ BookType /\ TallyType
    BY Booked DEF TypeOK
  <1>1. ASSUME NEW c \in Callers, NEW j \in Ids, NEW m \in Mails, Dispatch(c, j, m)
        PROVE  TypeOK'
    <2>1. JobType' /\ ActorType'
      BY <1>0, <1>1 DEF Dispatch, JobType, ActorType
    <2>2. BookType'
      BY <1>0, <1>1, EmailConstantsOK DEF Dispatch, BookType, EmailConstantsOK
    <2> QED
      BY <2>1, <2>2 DEF TypeOK
  <1>2. ASSUME NEW c \in Callers, Add(c)
        PROVE  TypeOK'
    <2> DEFINE j == call[c].id  m == call[c].mail
    <2>1. j \in Ids /\ m \in Mails /\ <<j, m>> \in Commands
      BY <1>0 DEF ActorType, Commands
    <2>2. JobType'
      <3>1. [NoJob(m) EXCEPT !.state = "wait"] \in JobRecord
        BY <2>1, NoJobTyped
      <3>2. UNCHANGED job \/ job' = [job EXCEPT ![j] = [NoJob(m) EXCEPT !.state = "wait"]]
        BY <1>2 DEF Add, Enqueue
      <3> HIDE DEF j, m
      <3> QED
        BY <1>0, <2>1, <3>1, <3>2 DEF JobType, JobRecord
    <2>3. ActorType'
      BY <1>0, <1>2, AnyOnes DEF Add, ActorType
    <2>4. TallyType'
      <3>1. UNCHANGED tally \/ tally' = [tally EXCEPT ![<<j, m>>].queued = TRUE]
        BY <1>2 DEF Add, Enqueue
      <3> HIDE DEF j, m
      <3> QED
        BY <1>0, <2>1, <3>1, TallySteps DEF TallyType
    <2>5. UNCHANGED <<expired, receipts, conflicts, refused, dispatches>>
      BY <1>2 DEF Add, bookVars
    <2> QED
      BY <1>0, <2>2, <2>3, <2>4, <2>5, Booked DEF TypeOK, TallyType, TallyEntry, BookType
  <1>3. ASSUME NEW c \in Callers, Read(c) \/ CallCrash(c)
        PROVE  TypeOK'
    <2>1. JobType' /\ ActorType'
      BY <1>0, <1>3, AnyOnes DEF Read, CallCrash, JobType, ActorType
    <2>2. <<call[c].id, call[c].mail>> \in Commands
      BY <1>0 DEF ActorType, Commands
    <2>3. receipts' \subseteq Commands /\ conflicts' \subseteq Commands
      BY <1>0, <1>3, <2>2 DEF Read, CallCrash, BookType, bookVars
    <2>4. UNCHANGED <<expired, refused, tally, dispatches>>
      BY <1>3 DEF Read, CallCrash, bookVars
    <2> QED
      BY <1>0, <2>1, <2>3, <2>4 DEF TypeOK, BookType
  <1>4. ASSUME NEW s \in Slots, NEW j \in Ids, Take(s, j)
        PROVE  TypeOK'
    <2>1. JobType'
      <3>1. job' = [job EXCEPT ![j].state = "active", ![j].owner = s]
        BY <1>4 DEF Take
      <3> QED
        BY <1>0, <3>1, JobMoved
    <2>2. ActorType'
      <3>1. job[j].mail \in Mails
        BY <1>0 DEF JobType
      <3> QED
        BY <1>0, <1>4, <3>1 DEF Take, ActorType
    <2>3. UNCHANGED <<expired, receipts, conflicts, refused, tally, dispatches>>
      BY <1>4 DEF Take, bookVars
    <2> QED
      BY <1>0, <2>1, <2>2, <2>3 DEF TypeOK, BookType
  <1>5. ASSUME NEW s \in Slots, Process(s) \/ SlotCrash(s)
        PROVE  TypeOK'
    <2> DEFINE j == slot[s].id
    <2>1. j \in Ids /\ Command(s) \in Commands /\ job[j].mail \in Mails /\ <<j, job[j].mail>> \in Commands
      BY <1>0 DEF ActorType, JobType, Commands, Command
    <2>2. ActorType'
      BY <1>0, <1>5, AnyOnes DEF Process, SlotCrash, Check, Send, Complete, Fail, Retry, Turn, ActorType,
                                 IdleSlot
    <2>3. JobType'
      <3>1. CASE UNCHANGED job
        BY <1>0, <3>1 DEF JobType
      <3>2. CASE \E o \in {"completed", "failed"} : Finish(j, o)
        BY <1>0, <2>1, <3>2, JobFinished
      <3>3. CASE Retry(s) /\ Backoff(j, job[j].made + 1) /\ job[j].made + 1 < Attempts
        <4>1. job[j].made + 1 \in 0..(Attempts - 1)
          BY <1>0, <2>1, <3>3, EmailConstantsOK DEF JobType, EmailConstantsOK
        <4> QED
          BY <1>0, <2>1, <3>3, <4>1, JobDelayed
      <3> QED
        BY <1>5, <3>1, <3>2, <3>3 DEF Process, SlotCrash, Check, Send, Complete, Fail, Retry,
                                      RecordCompleted, RecordFailed
    <2>4. refused' \subseteq Commands
      <3>1. refused' \subseteq refused \cup {<<j, job[j].mail>>}
        BY <1>5 DEF Process, SlotCrash, Check, Send, Complete, Fail, Retry, RecordCompleted, RecordFailed
      <3> QED
        BY <1>0, <2>1, <3>1 DEF BookType
    <2>5. TallyType'
      <3>1. CASE UNCHANGED tally
        BY <1>0, <3>1 DEF TallyType
      <3>2. CASE Send(s)
        BY <1>0, <2>1, <3>2, TallySteps DEF Send, TallyType
      <3> QED
        BY <1>5, <3>1, <3>2 DEF Process, SlotCrash, Check, Complete, Fail, Retry
    <2>6. UNCHANGED <<expired, receipts, conflicts, dispatches>>
      BY <1>5 DEF Process, SlotCrash, Check, Send, Complete, Fail, Retry, bookVars
    <2> QED
      BY <1>0, <2>2, <2>3, <2>4, <2>5, <2>6 DEF TypeOK, BookType, TallyType, TallyEntry
  <1>6. ASSUME NEW j \in Ids, Promote(j) \/ Stall(j)
        PROVE  TypeOK'
    <2>1. <<j, job[j].mail>> \in Commands /\ job[j].stalls + 1 \in Nat
      BY <1>0, EmailConstantsOK DEF JobType, Commands, EmailConstantsOK
    <2>2. JobType'
      <3>1. CASE job' = [job EXCEPT ![j].state = "wait"]
        BY <1>0, <3>1, JobMoved
      <3>2. CASE \E n \in 0..MaxStalls : job' = [job EXCEPT ![j].state = "wait", ![j].owner = NoSlot,
                                                             ![j].stalls = n]
        BY <1>0, <3>2, JobMoved
      <3>3. CASE RecordFailed(j)
        BY <1>0, <3>3, JobFinished DEF RecordFailed
      <3> QED
        BY <1>6, <2>1, <3>1, <3>2, <3>3, EmailConstantsOK DEF Promote, Stall, EmailConstantsOK
    <2>3. refused' \subseteq Commands
      BY <1>0, <1>6, <2>1 DEF Promote, Stall, RecordFailed, BookType
    <2>4. TallyType'
      <3>1. UNCHANGED tally \/ tally' = [tally EXCEPT ![<<j, job[j].mail>>].due = @ + 1]
        BY <1>6 DEF Promote, Stall
      <3> QED
        BY <1>0, <2>1, <3>1, TallySteps DEF TallyType
    <2>5. UNCHANGED <<expired, call, slot, receipts, conflicts, dispatches>>
      BY <1>6 DEF Promote, Stall, bookVars
    <2> QED
      BY <1>0, <2>2, <2>3, <2>4, <2>5 DEF TypeOK, ActorType, BookType, TallyType, TallyEntry
  <1>7. ASSUME NEW j \in Ids, Forget(j)
        PROVE  TypeOK'
    <2>1. JobType'
      <3>1. NoJob(AnyMail) \in JobRecord
        BY AnyOnes, NoJobTyped
      <3>2. job' = [job EXCEPT ![j] = NoJob(AnyMail)]
        BY <1>7 DEF Forget
      <3> QED
        BY <1>0, <3>1, <3>2, JobChanged
    <2>2. TallyType'
      BY <1>7, Forgotten
    <2>3. UNCHANGED <<expired, call, slot, receipts, conflicts, refused, dispatches>>
      BY <1>7 DEF Forget, bookVars
    <2> QED
      BY <1>0, <2>1, <2>2, <2>3 DEF TypeOK, ActorType, BookType, TallyType, TallyEntry
  <1>8. ASSUME NEW m \in Mails, Expire(m)
        PROVE  TypeOK'
    BY <1>0, <1>8 DEF Expire, TypeOK, JobType, ActorType, BookType, bookVars
  <1>9. CASE UNCHANGED vars
    BY <1>0, <1>9 DEF vars, TypeOK, JobType, ActorType, BookType, bookVars
  <1> QED
    BY <1>1, <1>2, <1>3, <1>4, <1>5, <1>6, <1>7, <1>8, <1>9 DEF Next

\* The queue, its callers and its slots keep their types, and no job makes more
\* attempts or stalls than are granted (email.queue.ts).
THEOREM EmailTypeCorrect == Spec => []TypeOK
  BY EmailTypedInit, EmailTypedNext, PTL DEF Spec

-----------------------------------------------------------------------------
(* What a producer is told.  A record of a job says which of the bodies was *)
(* queued under the id, and says so until it is forgotten; what was queued  *)
(* once stays so.                                                           *)

RecordsAreTrue ==
    \A j \in Ids : job[j].state # "none" => tally[<<j, job[j].mail>>].queued

\* Nothing un-queues a command.
LEMMA QueuedStays ==
    ASSUME TypeOK, [Next]_vars, NEW x \in Commands
    PROVE  tally[x].queued => tally'[x].queued
  <1>0. JobType /\ ActorType /\ TallyType
    BY Booked DEF TypeOK
  <1>1. CASE UNCHANGED tally
    BY <1>1
  <1>2. ASSUME NEW c \in Callers, Add(c), ~ UNCHANGED tally
        PROVE  tally[x].queued => tally'[x].queued
    <2>1. <<call[c].id, call[c].mail>> \in Commands
      BY <1>0 DEF ActorType, Commands
    <2> QED
      BY <1>0, <1>2, <2>1, TallySteps DEF Add, Enqueue
  <1>3. ASSUME NEW s \in Slots, Send(s), ~ UNCHANGED tally
        PROVE  tally[x].queued => tally'[x].queued
    <2>1. Command(s) \in Commands
      BY <1>0 DEF ActorType, Commands, Command
    <2> QED
      BY <1>0, <1>3, <2>1, TallySteps DEF Send
  <1>4. ASSUME NEW j \in Ids, Stall(j), ~ UNCHANGED tally
        PROVE  tally[x].queued => tally'[x].queued
    <2>1. <<j, job[j].mail>> \in Commands
      BY <1>0 DEF JobType, Commands
    <2> QED
      BY <1>0, <1>4, <2>1, TallySteps DEF Stall
  <1>5. ASSUME NEW j \in Ids, Forget(j)
        PROVE  tally[x].queued => tally'[x].queued
    BY <1>5, Forgotten
  <1> QED
    BY <1>1, <1>2, <1>3, <1>4, <1>5 DEF Next, vars, Expire, Dispatch, Read, CallCrash, Take, Process,
         Check, Complete, Fail, Retry, SlotCrash, Promote

\* A record that is there was either there before, with the same body, or has
\* just been made for the body that is queued.
LEMMA RecordsStayTrue ==
    ASSUME TypeOK, RecordsAreTrue, [Next]_vars
    PROVE  RecordsAreTrue'
  <1>0. JobType /\ ActorType /\ TallyType /\ JobType'
    BY Booked, EmailTypedNext DEF TypeOK
  <1>1. ASSUME NEW j \in Ids, job'[j].state # "none", job'[j].mail = job[j].mail, job[j].state # "none"
        PROVE  tally'[<<j, job'[j].mail>>].queued
    <2>1. <<j, job[j].mail>> \in Commands
      BY <1>0 DEF JobType, Commands
    <2> QED
      BY <1>1, <2>1, QueuedStays DEF RecordsAreTrue
  <1>2. CASE \E c \in Callers : Add(c)
    <2> PICK c \in Callers : Add(c)
      BY <1>2
    <2> DEFINE i == call[c].id  m == call[c].mail
    <2>1. i \in Ids /\ m \in Mails /\ <<i, m>> \in Commands
      BY <1>0 DEF ActorType, Commands
    <2>2. CASE UNCHANGED job
      BY <1>1, <2>2 DEF RecordsAreTrue
    <2>3. CASE Enqueue(i, m)
      <3>1. [NoJob(m) EXCEPT !.state = "wait"] \in JobRecord /\ [NoJob(m) EXCEPT !.state = "wait"].mail = m
        BY <2>1, NoJobTyped
      <3> DEFINE r == [NoJob(m) EXCEPT !.state = "wait"]
      <3>2. job' = [job EXCEPT ![i] = r]
        BY <2>3 DEF Enqueue
      <3> HIDE DEF r, m, i
      <3>3. \A k \in Ids : job'[k] = IF k = i THEN r ELSE job[k]
        BY <1>0, <2>1, <3>1, <3>2, JobChanged DEF r
      <3>4. tally'[<<i, m>>].queued
        BY <1>0, <2>1, <2>3 DEF Enqueue, TallyType, TallyEntry
      <3>5. ASSUME NEW k \in Ids, k # i, job'[k].state # "none"
            PROVE  tally'[<<k, job'[k].mail>>].queued
        BY <1>1, <3>3, <3>5
      <3>6. job'[i].mail = m
        BY <2>1, <3>1, <3>3 DEF r
      <3> QED
        BY <3>4, <3>5, <3>6 DEF RecordsAreTrue
    <2> QED
      BY <2>2, <2>3 DEF Add
  <1>3. ASSUME \A j \in Ids : /\ job'[j].state # "none" => job[j].state # "none"
                            /\ job'[j].mail = job[j].mail
        PROVE  RecordsAreTrue'
    BY <1>1, <1>3 DEF RecordsAreTrue
  <1>4. CASE \E s \in Slots, j \in Ids : Take(s, j)
    <2> PICK s \in Slots, j \in Ids : Take(s, j)
      BY <1>4
    <2>1. job[j].state = "wait" /\ job' = [job EXCEPT ![j].state = "active", ![j].owner = s]
      BY DEF Take
    <2>2. \A k \in Ids : job'[k].mail = job[k].mail /\ (k # j => job'[k] = job[k])
      BY <1>0, <2>1, JobMoved
    <2> QED
      BY <1>3, <2>1, <2>2
  <1>5. CASE \E s \in Slots : Complete(s) \/ Fail(s) \/ Retry(s)
    <2> PICK s \in Slots : Complete(s) \/ Fail(s) \/ Retry(s)
      BY <1>5
    <2> DEFINE j == slot[s].id
    <2>1. j \in Ids
      BY <1>0 DEF ActorType
    <2>2. CASE UNCHANGED job
      BY <1>3, <2>2
    <2>3. CASE Holds(s) /\ \E o \in {"completed", "failed"} : Finish(j, o)
      <3>1. \A k \in Ids : job'[k].mail = job[k].mail /\ (k # j => job'[k] = job[k])
        BY <1>0, <2>1, <2>3, JobFinished
      <3> QED
        BY <1>3, <2>3, <3>1 DEF Holds
    <2>4. CASE Holds(s) /\ Backoff(j, job[j].made + 1) /\ job[j].made + 1 < Attempts
      <3>1. job[j].made + 1 \in 0..(Attempts - 1)
        BY <1>0, <2>1, <2>4, EmailConstantsOK DEF JobType, EmailConstantsOK
      <3>2. \A k \in Ids : job'[k].mail = job[k].mail /\ (k # j => job'[k] = job[k])
        BY <1>0, <2>1, <2>4, <3>1, JobDelayed
      <3> QED
        BY <1>3, <2>4, <3>2 DEF Holds
    <2> QED
      BY <2>2, <2>3, <2>4 DEF Complete, Fail, Retry, RecordCompleted, RecordFailed
  <1>6. CASE \E j \in Ids : Promote(j) \/ Stall(j)
    <2> PICK j \in Ids : Promote(j) \/ Stall(j)
      BY <1>6
    <2>1. job[j].state # "none"
      BY DEF Promote, Stall
    <2>2. \A k \in Ids : job'[k].mail = job[k].mail /\ (k # j => job'[k] = job[k])
      <3>1. CASE job' = [job EXCEPT ![j].state = "wait"]
        BY <1>0, <3>1, JobMoved
      <3>2. CASE \E n \in 0..MaxStalls : job' = [job EXCEPT ![j].state = "wait", ![j].owner = NoSlot,
                                                             ![j].stalls = n]
        BY <1>0, <3>2, JobMoved
      <3>3. CASE RecordFailed(j)
        BY <1>0, <3>3, JobFinished DEF RecordFailed
      <3>4. job[j].stalls + 1 \in Nat
        BY <1>0 DEF JobType
      <3> QED
        BY <3>1, <3>2, <3>3, <3>4, EmailConstantsOK DEF Promote, Stall, EmailConstantsOK
    <2> QED
      BY <1>3, <2>1, <2>2
  <1>7. CASE \E j \in Ids : Forget(j)
    <2> PICK j \in Ids : Forget(j)
      BY <1>7
    <2>1. NoJob(AnyMail) \in JobRecord /\ NoJob(AnyMail).state = "none"
      BY AnyOnes, NoJobTyped
    <2>2. job' = [job EXCEPT ![j] = NoJob(AnyMail)]
      BY DEF Forget
    <2>3. \A k \in Ids : job'[k] = IF k = j THEN NoJob(AnyMail) ELSE job[k]
      BY <1>0, <2>1, <2>2, JobChanged
    <2> QED
      BY <1>1, <2>1, <2>3 DEF RecordsAreTrue
  <1>8. CASE UNCHANGED job
    BY <1>3, <1>8
  <1> QED
    BY <1>2, <1>4, <1>5, <1>6, <1>7, <1>8 DEF Next, vars, Expire, Dispatch, Read, CallCrash, Process,
         Check, Send, SlotCrash

\* What dispatchEmail answers is what the record it has read says
\* (email.service.ts lines 23-27).
THEOREM ProducersAreToldTheTruth == Spec => []AnswersAreTrue
  <1> DEFINE Inv == TypeOK /\ RecordsAreTrue /\ AnswersAreTrue
  <1>1. Init => Inv
    <2> SUFFICES ASSUME Init PROVE RecordsAreTrue /\ AnswersAreTrue
      BY EmailTypedInit
    <2>1. \A j \in Ids : job[j].state = "none"
      BY AnyOnes, NoJobTyped DEF Init
    <2>2. receipts = {} /\ conflicts = {}
      BY DEF Init
    <2> QED
      BY <2>1, <2>2 DEF RecordsAreTrue, AnswersAreTrue
  <1>2. Inv /\ [Next]_vars => Inv'
    <2> SUFFICES ASSUME Inv, [Next]_vars PROVE AnswersAreTrue'
      BY EmailTypedNext, RecordsStayTrue
    <2>0. JobType /\ ActorType /\ BookType
      BY DEF TypeOK
    <2>1. \A x \in Commands : tally[x].queued => tally'[x].queued
      BY QueuedStays
    <2>2. receipts \subseteq Commands /\ conflicts \subseteq Commands
      BY <2>0, Booked
    <2>3. CASE UNCHANGED <<receipts, conflicts>>
      <3>1. \A x \in receipts : tally'[x].queued
        BY <2>1, <2>2 DEF AnswersAreTrue
      <3>2. \A x \in conflicts : \E m \in Mails \ {x[2]} : tally'[<<x[1], m>>].queued
        <4> TAKE x \in conflicts
        <4>1. PICK m \in Mails \ {x[2]} : tally[<<x[1], m>>].queued
          BY DEF AnswersAreTrue
        <4>2. <<x[1], m>> \in Commands
          BY <2>2 DEF Commands
        <4> QED
          BY <2>1, <4>1, <4>2
      <3> QED
        BY <2>3, <3>1, <3>2 DEF AnswersAreTrue
    <2>4. CASE \E c \in Callers : Read(c)
      <3> PICK c \in Callers : Read(c)
        BY <2>4
      <3> DEFINE j == call[c].id  x == <<j, call[c].mail>>
      <3>1. j \in Ids /\ call[c].mail \in Mails /\ x \in Commands /\ job[j].mail \in Mails
        BY <2>0 DEF ActorType, JobType, Commands
      <3>2. UNCHANGED tally
        BY DEF Read
      <3>3. job[j].state # "none" => tally[<<j, job[j].mail>>].queued
        BY <3>1 DEF RecordsAreTrue
      <3>4. CASE UNCHANGED <<receipts, conflicts>>
        BY <3>2, <3>4 DEF AnswersAreTrue
      <3>5. CASE /\ job[j].state # "none" /\ job[j].mail = call[c].mail
                 /\ receipts' = receipts \cup {x} /\ UNCHANGED conflicts
        BY <3>2, <3>3, <3>5 DEF AnswersAreTrue
      <3>6. CASE /\ job[j].state # "none" /\ job[j].mail # call[c].mail
                 /\ conflicts' = conflicts \cup {x} /\ UNCHANGED receipts
        <4>1. job[j].mail \in Mails \ {x[2]} /\ tally[<<x[1], job[j].mail>>].queued
          BY <3>1, <3>3, <3>6
        <4> HIDE DEF x
        <4> QED
          BY <3>2, <3>6, <4>1 DEF AnswersAreTrue
      <3> QED
        BY <3>4, <3>5, <3>6 DEF Read
    <2> QED
      BY <2>3, <2>4 DEF Next, vars, bookVars, Expire, Dispatch, Add, CallCrash, Take, Process, Check, Send,
           Complete, Fail, Retry, SlotCrash, Promote, Stall, Forget
  <1>3. Inv => AnswersAreTrue
    OBVIOUS
  <1> HIDE DEF Inv
  <1> QED
    BY <1>1, <1>2, <1>3, PTL DEF Spec

-----------------------------------------------------------------------------
(* How often the relay accepts a mail.  Each time it may is accounted for   *)
(* by who can still hand the mail to it: the slots that hold a copy of the  *)
(* job before or in their transaction or are about to put it back, and the  *)
(* record itself while it waits or has yet to be made.                      *)

InHand(s, x) ==
    /\ slot[s].id = x[1] /\ slot[s].mail = x[2]
    /\ slot[s].pc \in {"check", "send"} \/ (slot[s].pc = "retry" /\ Holds(s))

Hands(x) == {s \in Slots : InHand(s, x)}

Queued(x) == \/ job[x[1]].state = "none"
             \/ job[x[1]].mail = x[2] /\ job[x[1]].state \in {"wait", "delayed"}

Accounted == \A x \in Commands :
    tally[x].due >= Cardinality(Hands(x)) + (IF Queued(x) THEN 1 ELSE 0)

\* A slot that holds the lock of a job works on the body the job is for.
OwnMail == \A s \in Slots :
    slot[s].pc # "idle" /\ Holds(s) => job[slot[s].id].mail = slot[s].mail

DueInv == Accounted /\ OwnMail

LEMMA HandsFinite ==
    \A x : IsFiniteSet(Hands(x)) /\ Cardinality(Hands(x)) \in Nat
  BY EmailConstantsOK, FS_Subset, FS_CardinalityType DEF EmailConstantsOK, Hands

LEMMA HandsFiniteNext ==
    \A x : IsFiniteSet(Hands(x)') /\ Cardinality(Hands(x)') \in Nat
  BY EmailConstantsOK, FS_Subset, FS_CardinalityType DEF EmailConstantsOK, Hands

\* What one command may do to its own account.
LEMMA AccountSteps ==
    ASSUME NEW x \in Commands, TallyType, TallyType',
           tally[x].due >= Cardinality(Hands(x)) + (IF Queued(x) THEN 1 ELSE 0),
           \* nobody takes it up, and whoever queues it gives a cause
           \/ /\ Hands(x)' \subseteq Hands(x)
              /\ \/ tally'[x].due >= tally[x].due /\ (Queued(x)' => Queued(x))
                 \/ tally'[x].due = tally[x].due + 1
           \* it changes hands
           \/ /\ tally'[x].due >= tally[x].due
              /\ \E s \in Slots : Hands(x)' \subseteq Hands(x) \cup {s} /\ Queued(x) /\ ~Queued(x)'
           \* a slot is done with it
           \/ \E s \in Hands(x) :
                 /\ Hands(x)' \subseteq Hands(x) \ {s}
                 /\ tally'[x].due >= tally[x].due \/ (tally'[x].due = tally[x].due - 1 /\ (Queued(x)' => Queued(x)))
    PROVE  tally'[x].due >= Cardinality(Hands(x)') + (IF Queued(x)' THEN 1 ELSE 0)
  <1>0. tally[x].due \in Int /\ tally'[x].due \in Int
    <2>1. tally[x] \in TallyEntry /\ tally'[x] \in TallyEntry
      BY DEF TallyType
    <2> QED
      BY <2>1 DEF TallyEntry
  <1> DEFINE n == Cardinality(Hands(x))  m == Cardinality(Hands(x)')
             d == tally[x].due  e == tally'[x].due
  <1>1. n \in Nat /\ m \in Nat /\ IsFiniteSet(Hands(x)) /\ IsFiniteSet(Hands(x)')
    BY HandsFinite, HandsFiniteNext
  <1>2. CASE Hands(x)' \subseteq Hands(x)
    <2>1. m <= n
      BY <1>1, <1>2, FS_Subset
    <2>2. CASE \E s \in Hands(x) :
                 /\ Hands(x)' \subseteq Hands(x) \ {s}
                 /\ tally'[x].due >= tally[x].due \/ (tally'[x].due = tally[x].due - 1 /\ (Queued(x)' => Queued(x)))
      <3> PICK s \in Hands(x) :
                 /\ Hands(x)' \subseteq Hands(x) \ {s}
                 /\ tally'[x].due >= tally[x].due \/ (tally'[x].due = tally[x].due - 1 /\ (Queued(x)' => Queued(x)))
        BY <2>2
      <3>1. IsFiniteSet(Hands(x) \ {s}) /\ Cardinality(Hands(x) \ {s}) = n - 1
        BY <1>1, FS_RemoveElement
      <3>2. m <= n - 1
        BY <3>1, FS_Subset
      <3> HIDE DEF n, m, d, e
      <3> QED
        BY <1>0, <1>1, <3>2 DEF n, m, d, e
    <2>3. CASE d <= e /\ (Queued(x)' => Queued(x))
      BY <1>0, <1>1, <2>1, <2>3
    <2>4. CASE e = d + 1
      BY <1>0, <1>1, <2>1, <2>4
    <2>5. CASE d <= e /\ Queued(x) /\ ~Queued(x)'
      BY <1>0, <1>1, <2>1, <2>5
    <2> QED
      BY <1>0, <2>2, <2>3, <2>4, <2>5
  <1>3. CASE \E s \in Slots : /\ e >= d /\ Queued(x) /\ ~Queued(x)'
                               /\ Hands(x)' \subseteq Hands(x) \cup {s}
    <2> PICK s \in Slots : /\ e >= d /\ Queued(x) /\ ~Queued(x)'
                           /\ Hands(x)' \subseteq Hands(x) \cup {s}
      BY <1>3
    <2>1. IsFiniteSet(Hands(x) \cup {s}) /\ Cardinality(Hands(x) \cup {s}) \in {n, n + 1}
      BY <1>1, FS_AddElement
    <2>2. m <= n + 1
      <3>1. m <= Cardinality(Hands(x) \cup {s})
        BY <2>1, FS_Subset
      <3> QED
        BY <1>1, <2>1, <3>1
    <2> QED
      BY <1>0, <1>1, <2>2
  <1> QED
    BY <1>2, <1>3

\* The account of x after a step that takes nothing of it up: nobody is given
\* a copy, and the record is not made to wait.
LEMMA AccountKept ==
    ASSUME TypeOK, TypeOK', Accounted, NEW x \in Commands,
           \A s \in Slots : InHand(s, x)' => InHand(s, x),
           tally'[x].due = tally[x].due + 1 \/ (tally'[x].due = tally[x].due /\ (Queued(x)' => Queued(x)))
    PROVE  tally'[x].due >= Cardinality(Hands(x)') + (IF Queued(x)' THEN 1 ELSE 0)
  <1>1. TallyType /\ TallyType'
    BY Booked DEF TypeOK, BookType, TallyType, TallyEntry
  <1>2. Hands(x)' \subseteq Hands(x)
    BY DEF Hands
  <1>3. tally[x].due \in Int
    BY <1>1, EntryFields
  <1> QED
    BY <1>1, <1>2, <1>3, AccountSteps DEF Accounted

LEMMA CallsKeepAccounts ==
    ASSUME TypeOK, TypeOK', DueInv,
           \/ \E m \in Mails : Expire(m)
           \/ \E c \in Callers : Add(c) \/ Read(c) \/ CallCrash(c)
           \/ \E c \in Callers, j \in Ids, m \in Mails : Dispatch(c, j, m)
           \/ UNCHANGED vars
    PROVE  DueInv'
  <1>0. JobType /\ ActorType /\ TallyType
    BY Booked DEF TypeOK
  <1>1. CASE UNCHANGED <<job, slot, tally>>
    BY <1>1 DEF DueInv, Accounted, OwnMail, Hands, InHand, Queued, Holds
  <1>2. CASE \E c \in Callers : Add(c) /\ ~ UNCHANGED <<job, slot, tally>>
    <2> PICK c \in Callers : Add(c) /\ ~ UNCHANGED <<job, slot, tally>>
      BY <1>2
    <2> DEFINE i == call[c].id  m == call[c].mail  r == [NoJob(m) EXCEPT !.state = "wait"]
    <2>1. i \in Ids /\ m \in Mails /\ <<i, m>> \in Commands
      BY <1>0 DEF ActorType, Commands
    <2>2. job[i].state = "none" /\ Enqueue(i, m) /\ UNCHANGED slot
      BY DEF Add
    <2>3. r \in JobRecord /\ r.state = "wait" /\ r.mail = m /\ job' = [job EXCEPT ![i] = r]
      BY <2>1, <2>2, NoJobTyped DEF Enqueue
    <2>4. \A x \in Commands : tally'[x].due = tally[x].due
      BY <1>0, <2>1, <2>2, DueSteps DEF Enqueue
    <2> HIDE DEF r, m, i
    <2>5. \A k \in Ids : job'[k] = IF k = i THEN r ELSE job[k]
      BY <1>0, <2>1, <2>3, JobChanged
    <2>6. \A s \in Slots : slot[s].id \in Ids
      BY <1>0 DEF ActorType
    <2>7. \A s \in Slots : Holds(s)' => Holds(s) /\ slot[s].id # i
      BY <2>2, <2>3, <2>5, <2>6 DEF Holds
    <2>8. OwnMail'
      BY <2>2, <2>5, <2>6, <2>7 DEF DueInv, OwnMail
    <2>9. Accounted'
      <3> SUFFICES ASSUME NEW x \in Commands
                   PROVE  tally'[x].due >= Cardinality(Hands(x)') + (IF Queued(x)' THEN 1 ELSE 0)
        BY DEF Accounted
      <3>1. \A s \in Slots : InHand(s, x)' => InHand(s, x)
        BY <2>2, <2>7 DEF InHand
      <3>2. x[1] \in Ids
        BY DEF Commands
      <3>3. Queued(x)' => Queued(x)
        BY <2>2, <2>5, <3>2 DEF Queued
      <3> QED
        BY <2>4, <3>1, <3>3, AccountKept DEF DueInv
    <2> QED
      BY <2>8, <2>9 DEF DueInv
  <1> QED
    BY <1>1, <1>2 DEF Expire, Read, CallCrash, Dispatch, vars

\* A slot takes a job: the copy goes from the record to the slot.
LEMMA TakeKeepsAccounts ==
    ASSUME TypeOK, TypeOK', DueInv, NEW s \in Slots, NEW j \in Ids, Take(s, j)
    PROVE  DueInv'
  <1>0. JobType /\ ActorType /\ TallyType /\ TallyType'
    BY Booked DEF TypeOK, BookType, TallyType, TallyEntry
  <1>1. /\ slot[s].pc = "idle" /\ job[j].state = "wait" /\ UNCHANGED tally
        /\ job'[j].state = "active" /\ job'[j].owner = s /\ job'[j].mail = job[j].mail
        /\ \A k \in Ids : k # j => job'[k] = job[k]
        /\ slot'[s] = [pc |-> "check", id |-> j, mail |-> job[j].mail]
        /\ \A t \in Slots : t # s => slot'[t] = slot[t]
    BY <1>0 DEF Take, JobType, ActorType
  <1>2. \A t \in Slots : slot[t].id \in Ids
    BY <1>0 DEF ActorType
  <1>3. \A t \in Slots : t # s /\ Holds(t)' => Holds(t) /\ slot[t].id # j
    BY <1>1, <1>2 DEF Holds
  <1>4. OwnMail'
    BY <1>1, <1>2, <1>3 DEF DueInv, OwnMail
  <1>5. Accounted'
    <2> SUFFICES ASSUME NEW x \in Commands
                 PROVE  tally'[x].due >= Cardinality(Hands(x)') + (IF Queued(x)' THEN 1 ELSE 0)
      BY DEF Accounted
    <2>1. x[1] \in Ids
      BY DEF Commands
    <2>2. \A t \in Slots : t # s /\ InHand(t, x)' => InHand(t, x)
      BY <1>1, <1>3 DEF InHand
    <2>3. CASE x[1] = j /\ x[2] = job[j].mail
      <3>1. Hands(x)' \subseteq Hands(x) \cup {s}
        BY <2>2 DEF Hands
      <3>2. Queued(x) /\ ~Queued(x)'
        BY <1>1, <2>3 DEF Queued
      <3>3. tally[x].due \in Int
        BY <1>0, EntryFields
      <3> QED
        BY <1>0, <1>1, <3>1, <3>2, <3>3, AccountSteps DEF DueInv, Accounted
    <2>4. CASE ~(x[1] = j /\ x[2] = job[j].mail)
      <3>1. ~InHand(s, x)'
        BY <1>1, <2>4 DEF InHand
      <3>2. Queued(x)' => Queued(x)
        BY <1>1, <2>1 DEF Queued
      <3> QED
        BY <1>1, <2>2, <3>1, <3>2, AccountKept DEF DueInv
    <2> QED
      BY <2>3, <2>4
  <1> QED
    BY <1>4, <1>5 DEF DueInv

\* The transaction: the relay accepts the mail, and the slot that has handed it
\* over does not do so again.
LEMMA SendKeepsAccounts ==
    ASSUME TypeOK, TypeOK', DueInv, NEW s \in Slots, Check(s) \/ Send(s)
    PROVE  DueInv'
  <1>0. JobType /\ ActorType /\ TallyType /\ TallyType'
    BY Booked DEF TypeOK, BookType, TallyType, TallyEntry
  <1> DEFINE y == Command(s)
  <1>1. y \in Commands /\ y[1] = slot[s].id /\ y[2] = slot[s].mail
    BY <1>0 DEF ActorType, Commands, Command
  <1>2. /\ UNCHANGED job /\ slot[s].pc \in {"check", "send"}
        /\ \A t \in Slots : slot'[t].id = slot[t].id /\ slot'[t].mail = slot[t].mail
        /\ \A t \in Slots : t # s => slot'[t] = slot[t]
        /\ slot'[s].pc \in {"send", "fail", "complete", "retry"}
    BY <1>0 DEF Check, Send, Turn, ActorType
  <1>3. \A t \in Slots : Holds(t)' <=> Holds(t)
    BY <1>2 DEF Holds
  <1>4. OwnMail'
    BY <1>2, <1>3 DEF DueInv, OwnMail
  <1>5. \A x \in Commands, t \in Slots : InHand(t, x)' => InHand(t, x)
    BY <1>2, <1>3 DEF InHand
  <1>6. Accounted'
    <2> SUFFICES ASSUME NEW x \in Commands
                 PROVE  tally'[x].due >= Cardinality(Hands(x)') + (IF Queued(x)' THEN 1 ELSE 0)
      BY DEF Accounted
    <2>1. Queued(x)' <=> Queued(x)
      BY <1>2 DEF Queued
    <2>2. CASE tally'[x].due = tally[x].due
      BY <1>5, <2>1, <2>2, AccountKept DEF DueInv
    <2>3. CASE tally' = [tally EXCEPT ![y].sent = TRUE, ![y].due = @ - 1] /\ x = y
                 /\ (Turn(s, "complete") \/ Turn(s, "fail"))
      <3>1. tally'[x].due = tally[x].due - 1
        <4> HIDE DEF y
        <4>1. \A z \in Commands : tally'[z].due = IF z = y THEN tally[z].due - 1 ELSE tally[z].due
          BY <1>0, <1>1, <2>3, DueSteps
        <4> QED
          BY <2>3, <4>1
      <3>2. Send(s)
        BY <1>0, <3>1, EntryFields DEF Check
      <3>3. slot[s].pc = "send" /\ slot'[s].pc \in {"complete", "fail"}
        BY <1>0, <2>3, <3>2 DEF Send, Turn, ActorType
      <3>4. s \in Hands(x)
        BY <1>1, <1>2, <2>3 DEF Hands, InHand
      <3>5. Hands(x)' \subseteq Hands(x) \ {s}
        BY <1>5, <3>3 DEF Hands, InHand
      <3> QED
        BY <1>0, <2>1, <3>1, <3>4, <3>5, AccountSteps DEF DueInv, Accounted
    <2> QED
      <3>1. UNCHANGED tally \/ tally' = [tally EXCEPT ![y].sent = TRUE]
              \/ (tally' = [tally EXCEPT ![y].sent = TRUE, ![y].due = @ - 1]
                  /\ (Turn(s, "complete") \/ Turn(s, "fail")))
        BY DEF Check, Send
      <3> HIDE DEF y
      <3>2. (tally' = [tally EXCEPT ![y].sent = TRUE]) => tally'[x].due = tally[x].due
        BY <1>0, <1>1, DueSteps
      <3>3. (tally' = [tally EXCEPT ![y].sent = TRUE, ![y].due = @ - 1]) /\ x # y => tally'[x].due = tally[x].due
        BY <1>0, <1>1, DueSteps
      <3> QED
        BY <2>2, <2>3, <3>1, <3>2, <3>3
  <1> QED
    BY <1>4, <1>6 DEF DueInv

\* A slot is done: with a job that is finished, or that it puts back.
LEMMA DoneKeepsAccounts ==
    ASSUME TypeOK, TypeOK', DueInv, NEW s \in Slots,
           Complete(s) \/ Fail(s) \/ Retry(s) \/ SlotCrash(s)
    PROVE  DueInv'
  <1>0. JobType /\ ActorType /\ TallyType /\ TallyType'
    BY Booked DEF TypeOK, BookType, TallyType, TallyEntry
  <1> DEFINE j == slot[s].id
  <1>1. j \in Ids /\ (\A t \in Slots : slot[t].id \in Ids) /\ NoSlot \notin Slots
    BY <1>0, EmailConstantsOK DEF ActorType, EmailConstantsOK
  <1>2. /\ slot'[s].pc = "idle" /\ (\A t \in Slots : t # s => slot'[t] = slot[t])
        /\ \A x \in Commands : tally'[x].due = tally[x].due
    BY <1>0 DEF Complete, Fail, Retry, SlotCrash, IdleSlot, IdleCall, ActorType
  <1>3. \/ UNCHANGED job
        \/ Holds(s) /\ \E o \in {"completed", "failed"} : Finish(j, o)
        \/ /\ Holds(s) /\ slot[s].pc = "retry"
           /\ Backoff(j, job[j].made + 1) /\ job[j].made + 1 < Attempts
    BY DEF Complete, Fail, Retry, SlotCrash, RecordCompleted, RecordFailed
  <1>4. CASE UNCHANGED job
    <2>1. \A t \in Slots : t # s => (Holds(t)' <=> Holds(t))
      BY <1>2, <1>4 DEF Holds
    <2>2. OwnMail'
      BY <1>2, <1>4, <2>1 DEF DueInv, OwnMail
    <2>3. ASSUME NEW x \in Commands
          PROVE  tally'[x].due >= Cardinality(Hands(x)') + (IF Queued(x)' THEN 1 ELSE 0)
      <3>1. \A t \in Slots : InHand(t, x)' => InHand(t, x)
        BY <1>2, <2>1 DEF InHand
      <3>2. Queued(x)' => Queued(x)
        BY <1>4 DEF Queued
      <3> QED
        BY <1>2, <3>1, <3>2, AccountKept DEF DueInv
    <2> QED
      BY <2>2, <2>3 DEF DueInv, Accounted
  <1>5. CASE Holds(s) /\ \E o \in {"completed", "failed"} : Finish(j, o)
    <2>1. /\ \A k \in Ids : job'[k].mail = job[k].mail /\ (k # j => job'[k] = job[k])
          /\ job'[j].state \in {"completed", "failed"}
      BY <1>0, <1>1, <1>5, JobFinished
    <2> HIDE DEF j
    <2>2. \A t \in Slots : t # s /\ Holds(t)' => Holds(t)
      BY <1>1, <1>2, <2>1 DEF Holds
    <2>3. OwnMail'
      BY <1>1, <1>2, <2>1, <2>2 DEF DueInv, OwnMail
    <2>4. ASSUME NEW x \in Commands
          PROVE  tally'[x].due >= Cardinality(Hands(x)') + (IF Queued(x)' THEN 1 ELSE 0)
      <3>0. x[1] \in Ids
        BY DEF Commands
      <3>1. \A t \in Slots : InHand(t, x)' => InHand(t, x)
        BY <1>2, <2>2 DEF InHand
      <3>2. Queued(x)' => Queued(x)
        BY <2>1, <3>0 DEF Queued
      <3> QED
        BY <1>2, <3>1, <3>2, AccountKept DEF DueInv
    <2> QED
      BY <2>3, <2>4 DEF DueInv, Accounted
  <1>6. CASE /\ Holds(s) /\ slot[s].pc = "retry"
             /\ Backoff(j, job[j].made + 1) /\ job[j].made + 1 < Attempts
    <2>0. job[j].made + 1 \in 0..(Attempts - 1)
      BY <1>0, <1>1, <1>6, EmailConstantsOK DEF JobType, EmailConstantsOK
    <2>1. /\ \A k \in Ids : job'[k].mail = job[k].mail /\ (k # j => job'[k] = job[k])
          /\ job'[j].state = "delayed"
      BY <1>0, <1>1, <1>6, <2>0, JobDelayed
    <2>2. \A t \in Slots : t # s /\ Holds(t)' => Holds(t)
      BY <1>1, <1>2, <2>1 DEF Holds
    <2>3. OwnMail'
      BY <1>1, <1>2, <2>1, <2>2 DEF DueInv, OwnMail
    <2>4. job[j].mail = slot[s].mail /\ job[j].state = "active"
      BY <1>6 DEF DueInv, OwnMail, Holds
    <2>5. ASSUME NEW x \in Commands
          PROVE  tally'[x].due >= Cardinality(Hands(x)') + (IF Queued(x)' THEN 1 ELSE 0)
      <3>0. x[1] \in Ids
        BY DEF Commands
      <3>1. \A t \in Slots : InHand(t, x)' => InHand(t, x)
        BY <1>2, <2>2 DEF InHand
      <3>2. CASE x[1] = j /\ x[2] = slot[s].mail
        <4>1. s \in Hands(x)
          BY <1>6, <3>2 DEF Hands, InHand
        <4>2. Hands(x)' \subseteq Hands(x) \ {s}
          BY <1>2, <3>1 DEF Hands, InHand
        <4>3. tally[x].due \in Int
          BY <1>0, EntryFields
        <4> QED
          BY <1>0, <1>2, <4>1, <4>2, <4>3, AccountSteps DEF DueInv, Accounted
      <3>3. CASE ~(x[1] = j /\ x[2] = slot[s].mail)
        <4>1. Queued(x)' => Queued(x)
          BY <2>1, <2>4, <3>0, <3>3 DEF Queued
        <4> QED
          BY <1>2, <3>1, <4>1, AccountKept DEF DueInv
      <3> QED
        BY <3>2, <3>3
    <2> QED
      BY <2>3, <2>5 DEF DueInv, Accounted
  <1> QED
    BY <1>3, <1>4, <1>5, <1>6

\* The queue by itself: a lock that is lost and a record that is forgotten are
\* causes to send once more.
LEMMA QueueKeepsAccounts ==
    ASSUME TypeOK, TypeOK', DueInv, NEW j \in Ids, Promote(j) \/ Stall(j) \/ Forget(j)
    PROVE  DueInv'
  <1>0. JobType /\ ActorType /\ TallyType /\ TallyType'
    BY Booked DEF TypeOK, BookType, TallyType, TallyEntry
  <1>1. (\A t \in Slots : slot[t].id \in Ids) /\ <<j, job[j].mail>> \in Commands
    BY <1>0 DEF ActorType, JobType, Commands
  <1>2. UNCHANGED slot /\ \A k \in Ids : k # j => job'[k] = job[k]
    <2>1. CASE Stall(j) /\ RecordFailed(j)
      BY <1>0, <2>1, JobFinished DEF Stall, RecordFailed
    <2> QED
      BY <1>0, <2>1 DEF Promote, Stall, Forget, JobType
  <1>3. job'[j].state # "active"
    <2>1. CASE RecordFailed(j)
      BY <1>0, <2>1, JobFinished DEF RecordFailed
    <2>2. CASE Forget(j)
      BY <1>0, <2>2 DEF Forget, NoJob, JobType
    <2> QED
      BY <1>0, <2>1, <2>2 DEF Promote, Stall, JobType
  <1>4. \A t \in Slots : Holds(t)' => Holds(t) /\ slot[t].id # j
    BY <1>1, <1>2, <1>3 DEF Holds
  <1>5. OwnMail'
    BY <1>1, <1>2, <1>4 DEF DueInv, OwnMail
  <1>6. ASSUME NEW x \in Commands
        PROVE  tally'[x].due >= Cardinality(Hands(x)') + (IF Queued(x)' THEN 1 ELSE 0)
    <2>0. x[1] \in Ids /\ x[2] \in Mails /\ x = <<x[1], x[2]>>
      BY DEF Commands
    <2>1. \A t \in Slots : InHand(t, x)' => InHand(t, x)
      BY <1>2, <1>4 DEF InHand
    <2>2. CASE x[1] # j
      <3>1. tally'[x].due = tally[x].due
        <4>1. CASE Forget(j)
          BY <2>2, <4>1, Forgotten
        <4>2. CASE UNCHANGED tally
          BY <4>2
        <4>3. CASE tally' = [tally EXCEPT ![<<j, job[j].mail>>].due = @ + 1]
          <5>1. x # <<j, job[j].mail>>
            BY <2>2
          <5> QED
            BY <1>0, <1>1, <4>3, <5>1, DueSteps
        <4> QED
          BY <4>1, <4>2, <4>3 DEF Promote, Stall
      <3>2. Queued(x)' => Queued(x)
        BY <1>2, <2>0, <2>2 DEF Queued
      <3> QED
        BY <2>1, <3>1, <3>2, AccountKept DEF DueInv
    <2>3. CASE x[1] = j /\ Forget(j)
      BY <2>1, <2>3, Forgotten, AccountKept DEF DueInv
    <2>4. CASE x[1] = j /\ Promote(j)
      <3>1. Queued(x)' => Queued(x)
        BY <1>0, <2>4 DEF Queued, Promote, JobType
      <3> QED
        BY <2>1, <2>4, <3>1, AccountKept DEF DueInv, Promote
    <2>5. CASE x[1] = j /\ Stall(j) /\ UNCHANGED tally
      <3>1. job'[j].state = "failed"
        <4>1. RecordFailed(j)
          <5>1. CASE tally' = [tally EXCEPT ![<<j, job[j].mail>>].due = @ + 1]
            <6>1. tally'[<<j, job[j].mail>>].due = tally[<<j, job[j].mail>>].due + 1
              BY <1>0, <1>1, <5>1, DueSteps
            <6>2. tally[<<j, job[j].mail>>].due \in Int
              BY <1>0, <1>1, EntryFields
            <6> QED
              BY <2>5, <6>1, <6>2
          <5> QED
            BY <2>5, <5>1 DEF Stall
        <4> QED
          BY <1>0, <4>1, JobFinished DEF RecordFailed
      <3>2. ~Queued(x)'
        BY <2>5, <3>1 DEF Queued
      <3> QED
        BY <2>1, <2>5, <3>2, AccountKept DEF DueInv
    <2>6. CASE x[1] = j /\ Stall(j) /\ tally' = [tally EXCEPT ![<<j, job[j].mail>>].due = @ + 1]
                 /\ job' = [job EXCEPT ![j].state = "wait", ![j].owner = NoSlot, ![j].stalls = job[j].stalls + 1]
      <3>1. \A z \in Commands : tally'[z].due =
              IF z = <<j, job[j].mail>> THEN tally[z].due + 1 ELSE tally[z].due
        BY <1>0, <1>1, <2>6, DueSteps
      <3>2. CASE x[2] = job[j].mail
        <4>1. x = <<j, job[j].mail>>
          BY <2>0, <2>6, <3>2
        <4> QED
          BY <2>1, <3>1, <4>1, AccountKept DEF DueInv
      <3>3. CASE x[2] # job[j].mail
        <4>1. tally'[x].due = tally[x].due
          BY <3>1, <3>3
        <4>2. ~Queued(x)'
          BY <1>0, <2>6, <3>3 DEF Queued, JobType
        <4> QED
          BY <2>1, <4>1, <4>2, AccountKept DEF DueInv
      <3> QED
        BY <3>2, <3>3
    <2> QED
      BY <2>2, <2>3, <2>4, <2>5, <2>6 DEF Stall
  <1> QED
    BY <1>5, <1>6 DEF DueInv, Accounted

\* The relay is handed a mail once, and once more for each lost acknowledgement,
\* lost lock or forgotten record: never for another reason, however slots,
\* stalls, deaths and repeated commands overlap (email.mailer.ts lines 74-81).
THEOREM MailsAreResentForCause == Spec => []ResentForCause
  <1>1. Init => DueInv
    <2> SUFFICES ASSUME Init PROVE DueInv
      OBVIOUS
    <2>1. \A s \in Slots : slot[s].pc = "idle"
      BY DEF Init, IdleSlot, IdleCall
    <2>2. \A x \in Commands : Hands(x) = {}
      BY <2>1 DEF Hands, InHand
    <2>3. \A x \in Commands : tally[x].due = 1
      BY DEF Init
    <2> QED
      BY <2>1, <2>2, <2>3, FS_EmptySet DEF DueInv, Accounted, OwnMail
  <1>2. TypeOK /\ TypeOK' /\ DueInv /\ [Next]_vars => DueInv'
    BY CallsKeepAccounts, TakeKeepsAccounts, SendKeepsAccounts, DoneKeepsAccounts, QueueKeepsAccounts
       DEF Next, Process
  <1>3. TypeOK /\ DueInv => ResentForCause
    <2> SUFFICES ASSUME TypeOK, DueInv, NEW x \in Commands PROVE tally[x].due >= 0
      BY DEF ResentForCause
    <2>1. Cardinality(Hands(x)) \in Nat /\ tally[x].due \in Int
      BY HandsFinite, EntryFields, Booked DEF TypeOK
    <2> QED
      BY <2>1 DEF DueInv, Accounted
  <1> QED
    BY <1>1, <1>2, <1>3, EmailTypeCorrect, PTL DEF Spec
-----------------------------------------------------------------------------
(* ReceiptSettles, less its fairness: the record of a job cannot be handed   *)
(* about for ever.                                                           *)

Pcs == {"idle", "check", "send", "complete", "fail", "retry"}
Open(r) == r.state \in {"wait", "active", "delayed"}

\* What the slot that owns a job is doing with it; idle: it has died.
Hand(j) == LET o == job[j].owner IN
    IF job[j].state = "active" /\ o \in Slots /\ slot[o].id = j THEN slot[o].pc ELSE "idle"

Stage(pc) ==
    CASE pc = "check" -> 4
      [] pc = "send"  -> 3
      [] pc \in {"complete", "fail", "retry"} -> 2
      [] pc = "idle"  -> 1

\* The steps a record may still take: six for each attempt and each stall it
\* has left, and those of the present one.
Grants(r) == (Attempts - r.made) + (MaxStalls - r.stalls)
Left(r, pc) ==
    CASE ~Open(r)            -> 0
      [] r.state = "active"  -> 6 * Grants(r) + Stage(pc)
      [] r.state = "wait"    -> 6 * Grants(r) + 5
      [] r.state = "delayed" -> 6 * Grants(r) + 6

JobsBounded == \A j \in Ids :
    /\ Left(job[j], Hand(j)) \in 0..(6 * (Attempts + MaxStalls + 1))
    /\ Open(job[j]) <=> Left(job[j], Hand(j)) > 0

Fewer(j) ==
    \/ job'[j] = job[j] /\ Hand(j)' = Hand(j)
    \/ ~Open(job[j])
    \/ Left(job'[j], Hand(j)') < Left(job[j], Hand(j))

JobsAdvance == \A j \in Ids : Fewer(j)

LEMMA LeftCounted ==
    ASSUME NEW r \in JobRecord, NEW pc \in Pcs
    PROVE  /\ Grants(r) \in Nat /\ Grants(r) <= Attempts + MaxStalls
           /\ ~Open(r) => Left(r, pc) = 0
           /\ r.state = "active" => Left(r, pc) = 6 * Grants(r) + Stage(pc)
           /\ r.state = "wait" => Left(r, pc) = 6 * Grants(r) + 5
           /\ r.state = "delayed" => Left(r, pc) = 6 * Grants(r) + 6
           /\ Stage(pc) \in 1..4
           /\ Left(r, pc) \in 0..(6 * (Attempts + MaxStalls + 1))
           /\ Open(r) <=> Left(r, pc) > 0
  <1>1. /\ r.made \in 0..(Attempts - 1) /\ r.stalls \in 0..MaxStalls
        /\ r.state \in {"none", "wait", "active", "delayed", "completed", "failed"}
    BY DEF JobRecord
  <1>2. Attempts \in Nat /\ MaxStalls \in Nat
    BY EmailConstantsOK DEF EmailConstantsOK
  <1>3. Grants(r) \in Nat /\ Grants(r) <= Attempts + MaxStalls
    BY <1>1, <1>2 DEF Grants
  <1>4. Stage(pc) \in 1..4
    BY DEF Stage, Pcs
  <1>5. ~Open(r) => Left(r, pc) = 0
    BY DEF Left, Open
  <1>6. r.state = "active" => Open(r) /\ Left(r, pc) = 6 * Grants(r) + Stage(pc)
    BY DEF Left, Open
  <1>7. r.state = "wait" => Open(r) /\ Left(r, pc) = 6 * Grants(r) + 5
    BY DEF Left, Open
  <1>8. r.state = "delayed" => Open(r) /\ Left(r, pc) = 6 * Grants(r) + 6
    BY DEF Left, Open
  <1>9. Open(r) => r.state \in {"active", "wait", "delayed"}
    BY DEF Open
  <1> QED
    BY <1>2, <1>3, <1>4, <1>5, <1>6, <1>7, <1>8, <1>9

LEMMA JobsTyped ==
    ASSUME TypeOK, NEW j \in Ids
    PROVE  job[j] \in JobRecord /\ Hand(j) \in Pcs
  BY DEF TypeOK, JobType, ActorType, JobRecord, Hand, Pcs

LEMMA HandTypedNext ==
    ASSUME TypeOK', NEW j \in Ids
    PROVE  job'[j] \in JobRecord /\ Hand(j)' \in Pcs
  BY DEF TypeOK, JobType, ActorType, JobRecord, Hand, Pcs

\* A retry uses an attempt up, a lost lock a stall; nothing grants another.
LEMMA GrantsUsed ==
    ASSUME NEW r \in JobRecord, NEW q \in JobRecord,
           \/ q.made = r.made + 1 /\ q.stalls = r.stalls
           \/ q.made = r.made /\ q.stalls = r.stalls + 1
    PROVE  Grants(q) = Grants(r) - 1
  <1>1. r.made \in Nat /\ r.stalls \in Nat /\ Attempts \in Nat /\ MaxStalls \in Nat
    BY EmailConstantsOK DEF JobRecord, EmailConstantsOK
  <1> QED
    BY <1>1 DEF Grants

\* What a slot does brings the job it owns on, and touches no other.
LEMMA SlotsAdvance ==
    ASSUME TypeOK, TypeOK', NEW s \in Slots, Process(s) \/ SlotCrash(s), NEW j \in Ids
    PROVE  Fewer(j)
  <1>1. /\ job[j] \in JobRecord /\ Hand(j) \in Pcs /\ job'[j] \in JobRecord /\ Hand(j)' \in Pcs
    BY JobsTyped, HandTypedNext
  <1>2. /\ slot[s].pc \in Pcs \ {"idle"} /\ slot[s].id \in Ids
        /\ \A t \in Slots \ {s} : slot'[t] = slot[t]
        /\ slot'[s] = IdleSlot \/ slot'[s].id = slot[s].id
    BY DEF TypeOK, ActorType, Pcs, Process, SlotCrash, Check, Send, Complete, Fail, Retry, Turn
  <1> DEFINE Mine == job[j].state = "active" /\ job[j].owner = s /\ slot[s].id = j
  <1>3. CASE ~Mine
    <2>1. job'[j] = job[j]
      BY <1>3, EmailConstantsOK
         DEF TypeOK, JobType, Process, SlotCrash, Check, Send, Complete, Fail, Retry, Holds, Backoff,
             RecordCompleted, RecordFailed, Finish
    <2>2. Hand(j)' = Hand(j)
      BY <1>2, <1>3, <2>1 DEF Hand, IdleSlot, IdleCall
    <2> QED
      BY <2>1, <2>2 DEF Fewer
  <1>4. CASE Mine
    <2>1. Hand(j) = slot[s].pc /\ Holds(s)
      BY <1>4 DEF Hand, Holds
    <2>2. Left(job[j], Hand(j)) = 6 * Grants(job[j]) + Stage(slot[s].pc)
      BY <1>1, <1>4, <2>1, LeftCounted
    <2>3. CASE UNCHANGED job
      <3>1. Hand(j)' = slot'[s].pc \/ Hand(j)' = "idle"
        BY <1>4, <2>3 DEF Hand
      <3>2. Stage(Hand(j)') < Stage(slot[s].pc)
        <4>1. \/ slot[s].pc = "check" /\ slot'[s].pc \in {"fail", "send"}
              \/ slot[s].pc = "send" /\ slot'[s].pc \in {"complete", "fail", "retry"}
              \/ slot'[s].pc = "idle"
          BY <2>1, <2>3, <1>2, <1>4 DEF TypeOK, ActorType, Process, SlotCrash, Check, Send, Complete,
                                        Fail, Retry, Turn, IdleSlot, IdleCall
        <4>2. /\ Stage("check") = 4 /\ Stage("send") = 3 /\ Stage("idle") = 1
              /\ Stage("complete") = 2 /\ Stage("fail") = 2 /\ Stage("retry") = 2
          BY DEF Stage
        <4>3. slot[s].pc \in {"check", "send", "complete", "fail", "retry"}
          BY <1>2 DEF Pcs
        <4>4. CASE Hand(j)' = "idle"
          BY <4>2, <4>3, <4>4
        <4>5. CASE Hand(j)' = slot'[s].pc
          BY <4>1, <4>2, <4>3, <4>5
        <4> QED
          BY <3>1, <4>4, <4>5
      <3>3. Left(job'[j], Hand(j)') = 6 * Grants(job[j]) + Stage(Hand(j)')
        BY <1>1, <1>4, <2>3, LeftCounted
      <3>4. Grants(job[j]) \in Nat /\ Stage(Hand(j)') \in Nat /\ Stage(slot[s].pc) \in Nat
        BY <1>1, <1>2, LeftCounted
      <3> QED
        BY <2>2, <3>2, <3>3, <3>4 DEF Fewer
    <2>4. CASE \E o \in {"completed", "failed"} : Finish(j, o)
      <3>1. ~Open(job'[j])
        BY <2>4, JobFinished DEF TypeOK, Open
      <3>2. Left(job'[j], Hand(j)') = 0
        BY <1>1, <3>1, LeftCounted
      <3>3. Left(job[j], Hand(j)) \in Nat /\ Left(job[j], Hand(j)) > 0
        BY <1>1, <1>4, LeftCounted DEF Open
      <3> QED
        BY <3>2, <3>3 DEF Fewer
    <2>5. CASE slot[s].pc = "retry" /\ Backoff(j, job[j].made + 1)
      <3>1. job'[j].state = "delayed" /\ job'[j].made = job[j].made + 1 /\ job'[j].stalls = job[j].stalls
        BY <2>5 DEF TypeOK, JobType, Backoff
      <3>2. Grants(job'[j]) = Grants(job[j]) - 1
        BY <1>1, <3>1, GrantsUsed
      <3>3. Left(job'[j], Hand(j)') = 6 * Grants(job'[j]) + 6
        BY <1>1, <3>1, LeftCounted
      <3>4. Grants(job[j]) \in Nat /\ Grants(job'[j]) \in Nat /\ Stage(slot[s].pc) = 2
        BY <1>1, <2>5, LeftCounted DEF Stage
      <3> QED
        BY <2>2, <3>2, <3>3, <3>4 DEF Fewer
    <2> QED
      BY <1>4, <2>1, <2>3, <2>4, <2>5
         DEF Process, SlotCrash, Check, Send, Complete, Fail, Retry, RecordCompleted, RecordFailed
  <1> QED
    BY <1>3, <1>4

\* What the queue does with a record of its own accord.
LEMMA QueueAdvances ==
    ASSUME TypeOK, TypeOK', NEW k \in Ids,
           Promote(k) \/ Stall(k) \/ Forget(k) \/ \E s \in Slots : Take(s, k),
           NEW j \in Ids
    PROVE  Fewer(j)
  <1>1. /\ job[j] \in JobRecord /\ Hand(j) \in Pcs /\ job'[j] \in JobRecord /\ Hand(j)' \in Pcs
    BY JobsTyped, HandTypedNext
  <1>2. Grants(job[j]) \in Nat /\ Stage(Hand(j)) \in 1..4 /\ Stage(Hand(j)') \in 1..4
    BY <1>1, LeftCounted
  <1>3. CASE j # k
    <2>1. job'[j] = job[j]
      BY <1>3 DEF TypeOK, JobType, Promote, Stall, Forget, Take, RecordFailed, Finish
    <2>2. CASE UNCHANGED slot
      BY <2>1, <2>2 DEF Fewer, Hand
    <2>3. ASSUME NEW s \in Slots, Take(s, k)
          PROVE  Hand(j)' = Hand(j)
      <3>1. slot' = [slot EXCEPT ![s] = [pc |-> "check", id |-> k, mail |-> job[k].mail]]
            /\ slot[s].pc = "idle"
        BY <2>3 DEF Take
      <3> QED
        BY <1>3, <2>1, <3>1 DEF Hand, TypeOK, ActorType
    <2> QED
      BY <2>1, <2>2, <2>3 DEF Fewer, Promote, Stall, Forget
  <1>4. CASE j = k /\ Promote(k)
    <2>1. job[j].state = "delayed" /\ job'[j].state = "wait" /\ Grants(job'[j]) = Grants(job[j])
      BY <1>4 DEF Promote, TypeOK, JobType, Grants
    <2>2. Left(job[j], Hand(j)) = 6 * Grants(job[j]) + 6 /\ Left(job'[j], Hand(j)') = 6 * Grants(job[j]) + 5
      BY <1>1, <2>1, LeftCounted
    <2> QED
      BY <1>2, <2>2 DEF Fewer
  <1>5. CASE j = k /\ Forget(k)
    BY <1>5 DEF Forget, Fewer, Open
  <1>6. CASE j = k /\ \E s \in Slots : Take(s, k)
    <2>0. PICK s \in Slots : Take(s, k)
      BY <1>6
    <2>1. /\ job[j].state = "wait" /\ job'[j].state = "active"
          /\ job'[j].made = job[j].made /\ job'[j].stalls = job[j].stalls
      <3>1. job[k].state = "wait" /\ job' = [job EXCEPT ![k].state = "active", ![k].owner = s]
        BY <2>0 DEF Take
      <3>2. job[k] \in JobRecord /\ k \in DOMAIN job
        BY JobsTyped DEF TypeOK, JobType
      <3>3. job'[k] = [job[k] EXCEPT !.state = "active", !.owner = s]
        BY <3>1, <3>2
      <3> QED
        BY <1>6, <3>1, <3>2, <3>3 DEF JobRecord
    <2>2. Grants(job'[j]) = Grants(job[j])
      BY <2>1 DEF Grants
    <2>3. /\ Left(job[j], Hand(j)) = 6 * Grants(job[j]) + 5
          /\ Left(job'[j], Hand(j)') = 6 * Grants(job[j]) + Stage(Hand(j)')
      BY <1>1, <2>1, <2>2, LeftCounted
    <2> QED
      BY <1>2, <2>3 DEF Fewer
  <1>7. CASE j = k /\ Stall(k)
    <2>1. job[j].state = "active" /\ Left(job[j], Hand(j)) = 6 * Grants(job[j]) + Stage(Hand(j))
      BY <1>1, <1>7, LeftCounted DEF Stall
    <2>2. CASE RecordFailed(k)
      <3>1. Left(job'[j], Hand(j)') = 0
        BY <1>1, <1>7, <2>2, JobFinished, LeftCounted DEF RecordFailed, TypeOK, Open
      <3> QED
        BY <1>2, <2>1, <3>1 DEF Fewer
    <2>3. CASE ~RecordFailed(k)
      <3>1. /\ job'[j].state = "wait" /\ job'[j].made = job[j].made
            /\ job'[j].stalls = job[j].stalls + 1
        BY <1>7, <2>3 DEF Stall, TypeOK, JobType
      <3>2. Grants(job'[j]) = Grants(job[j]) - 1
        BY <1>1, <3>1, GrantsUsed
      <3>3. Left(job'[j], Hand(j)') = 6 * Grants(job'[j]) + 5
        BY <1>1, <3>1, LeftCounted
      <3> QED
        BY <1>2, <2>1, <3>2, <3>3 DEF Fewer
    <2> QED
      BY <2>2, <2>3
  <1> QED
    BY <1>3, <1>4, <1>5, <1>6, <1>7

LEMMA JobsAdvanceNext ==
    ASSUME TypeOK, [Next]_vars
    PROVE  JobsBounded' /\ JobsAdvance
  <1>1. TypeOK'
    BY EmailTypedNext
  <1>2. JobsBounded'
    <2> SUFFICES ASSUME NEW j \in Ids
                 PROVE  /\ Left(job'[j], Hand(j)') \in 0..(6 * (Attempts + MaxStalls + 1))
                        /\ Open(job'[j]) <=> Left(job'[j], Hand(j)') > 0
      BY DEF JobsBounded
    <2>1. job'[j] \in JobRecord /\ Hand(j)' \in Pcs
      BY <1>1, HandTypedNext
    <2> HIDE DEF Hand
    <2> QED
      BY <2>1, LeftCounted
  <1>3. ASSUME NEW j \in Ids
        PROVE  Fewer(j)
    <2>1. CASE UNCHANGED <<job, slot>>
      BY <2>1 DEF Fewer, Hand
    <2>2. ASSUME NEW c \in Callers, Add(c)
          PROVE  Fewer(j)
      <3>1. CASE job'[j] = job[j]
        BY <2>2, <3>1 DEF Fewer, Hand, Add
      <3>2. CASE job'[j] # job[j]
        <4>1. job[j].state = "none"
          BY <2>2, <3>2 DEF Add, Enqueue, TypeOK, JobType, ActorType
        <4> QED
          BY <4>1 DEF Fewer, Open
      <3> QED
        BY <3>1, <3>2
    <2>3. ASSUME NEW s \in Slots, Process(s) \/ SlotCrash(s)
          PROVE  Fewer(j)
      BY <1>1, <2>3, SlotsAdvance
    <2>4. ASSUME NEW k \in Ids, Promote(k) \/ Stall(k) \/ Forget(k) \/ \E s \in Slots : Take(s, k)
          PROVE  Fewer(j)
      BY <1>1, <2>4, QueueAdvances
    <2> QED
      BY <2>1, <2>2, <2>3, <2>4 DEF Next, Expire, Dispatch, Read, CallCrash, vars
  <1> QED
    BY <1>2, <1>3 DEF JobsAdvance

\* A command that BullMQ has accepted comes to its end, sent or given up, within
\* 6 * (attempts + stalls + 1) steps of its own record: each attempt, backoff,
\* lost lock and dead worker takes it further, and nothing but forgetting a
\* finished record starts it again (email.queue.ts, email.processor.ts).
THEOREM MailsAdvance == Spec => []JobsBounded /\ [][JobsAdvance]_vars
  <1>1. Init => JobsBounded
    <2> SUFFICES ASSUME Init
                 PROVE  JobsBounded
      OBVIOUS
    <2>1. TypeOK
      BY EmailTypedInit
    <2> HIDE DEF Init
    <2> QED
      BY <2>1, JobsTyped, LeftCounted DEF JobsBounded
  <1>2. TypeOK /\ [Next]_vars => JobsBounded' /\ JobsAdvance
    BY JobsAdvanceNext
  <1> QED
    BY <1>1, <1>2, EmailTypeCorrect, PTL DEF Spec
=============================================================================

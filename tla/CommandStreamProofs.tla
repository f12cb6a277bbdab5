------------------------- MODULE CommandStreamProofs -------------------------
(***************************************************************************)
(* Proofs about CommandStream, for any number of replicas, replayers,      *)
(* entries, crashes and Redis errors: its types, what is acknowledged, what *)
(* is replayed, that it keeps the promise of CommandDelivery, and that it  *)
(* bounds redelivery.                                                      *)
(***************************************************************************)
EXTENDS CommandStream, FiniteSetTheorems, WellFoundedInduction, TLAPS

-----------------------------------------------------------------------------
(* Type correctness.  Each lemma says what one building block of the        *)
(* actions does to the variables it touches; positions go with the types    *)
(* because a reinjected letter must name an entry that exists.              *)

Typed == TypeOK /\ PositionsOK

LEMMA IdsFacts ==
    ASSUME GroupTypeOK
    PROVE  /\ last \in Nat /\ Len(stream) \in Nat /\ last <= Len(stream)
           /\ 1..last \subseteq Ids /\ 1..Len(stream) \subseteq Ids
  BY ConstantsOK DEF GroupTypeOK, Ids, ConstantsOK

LEMMA OldestSubset == \A S : Oldest(S) \subseteq S
  BY DEF Oldest

LEMMA FreshFacts ==
    ASSUME GroupTypeOK
    PROVE  /\ Newest \in last..Len(stream)
           /\ Fresh \subseteq Ids /\ Fresh \subseteq 1..Newest
  BY ConstantsOK, IdsFacts DEF ConstantsOK, Fresh, Newest, GroupTypeOK, Ids

LEMMA DeliverSteps ==
    ASSUME GroupTypeOK, NEW S \in SUBSET Ids, Deliver(S)
    PROVE  /\ count' \in [Ids -> Nat] /\ idle' \subseteq Ids
           /\ \A i \in Ids : count'[i] = IF i \in S THEN count[i] + 1 ELSE count[i]
           /\ idle' = idle \ S
  BY DEF GroupTypeOK, Deliver

LEMMA AckSteps ==
    ASSUME GroupTypeOK, NEW i \in Ids, Ack(i)
    PROVE  /\ count' \in [Ids -> Nat] /\ idle' \subseteq Ids /\ last' = last
           /\ \A j \in Ids : count'[j] = IF j = i THEN 0 ELSE count[j]
           /\ idle' = idle \ {i}
  BY DEF GroupTypeOK, Ack

\* The steps that move a replica along keep its loop variables typed and can
\* only shrink its batch.
LEMMA LoopSteps ==
    ASSUME LoopTypeOK, NEW c \in Consumers, NEW i \in Ids,
           \/ \E w \in {"handle", "publish", "ack", "respond", "bury", "settle"} : Goto(c, w)
           \/ Continue(c, i)
           \/ Abandon(c)
           \/ RetryOrBury(c, i)
    PROVE  LoopTypeOK' /\ \A k \in Consumers : batch'[k] \subseteq batch[k]
  BY DEF LoopTypeOK, Goto, Continue, Abandon, RetryOrBury, EndOfBatch, Top

LEMMA AddEntrySteps ==
    ASSUME GroupTypeOK, NEW m \in Commands \cup {Pill}, NEW d \in Nat, AddEntry(m, d)
    PROVE  /\ stream' \in Seq(Items)
           /\ Len(stream') = Len(stream) + 1 /\ Len(stream') <= MaxEntries
           /\ \A i \in 1..Len(stream) : stream'[i] = stream[i]
           /\ stream'[Len(stream')] = [cmd |-> m, dead |-> d]
  <1>1. [cmd |-> m, dead |-> d] \in Items
    BY DEF Items
  <1>2. stream \in Seq(Items) /\ Len(stream) \in Nat
    BY DEF GroupTypeOK
  <1> QED
    BY <1>1, <1>2, ConstantsOK DEF AddEntry, ConstantsOK

LEMMA AddEntryGroup ==
    ASSUME GroupTypeOK, NEW m \in Commands \cup {Pill}, NEW d \in Nat,
           AddEntry(m, d), UNCHANGED groupVars
    PROVE  GroupTypeOK'
  <1>1. stream' \in Seq(Items) /\ Len(stream') = Len(stream) + 1 /\ Len(stream') <= MaxEntries
    BY AddEntrySteps
  <1>2. last' \in 0..Len(stream')
    BY <1>1, IdsFacts DEF groupVars, GroupTypeOK
  <1>3. count' \in [Ids -> Nat] /\ idle' \subseteq Ids
    BY DEF groupVars, GroupTypeOK
  <1> QED
    BY <1>1, <1>2, <1>3 DEF GroupTypeOK

LEMMA EnvSteps ==
    ASSUME EnvTypeOK,
           \/ UNCHANGED envVars
           \/ Fault
           \/ crashes < MaxCrashes /\ crashes' = crashes + 1 /\ UNCHANGED <<expired, faults>>
    PROVE  EnvTypeOK'
  BY ConstantsOK DEF EnvTypeOK, Fault, ConstantsOK, envVars

LEMMA LetterSteps ==
    ASSUME ReplayerTypeOK, UNCHANGED dlqLog, NEW r \in Replayers, NEW d, NextLetter(r, d)
    PROVE  ReplayerTypeOK'
  BY DEF ReplayerTypeOK, NextLetter

\* The command of an entry, and of a dead letter, is a command.
LEMMA CommandOf ==
    ASSUME Typed
    PROVE  /\ \A i \in 1..Len(stream) : Cmd(i) \in Commands \cup {Pill}
           /\ \A d \in DOMAIN dlqLog : Cmd(dlqLog[d]) \in Commands \cup {Pill}
  <1>1. \A i \in 1..Len(stream) : Cmd(i) \in Commands \cup {Pill}
    <2>1. \A i \in 1..Len(stream) : stream[i] \in Items
      BY DEF Typed, TypeOK, GroupTypeOK
    <2> QED
      BY <2>1 DEF Cmd, Items
  <1>2. \A d \in DOMAIN dlqLog : dlqLog[d] \in 1..Len(stream)
    <2>1. last \in Nat /\ Len(stream) \in Nat /\ last <= Len(stream)
      BY IdsFacts DEF Typed, TypeOK
    <2>2. \A d \in DOMAIN dlqLog : dlqLog[d] \in Ids /\ dlqLog[d] <= last
      BY DEF Typed, TypeOK, OutcomeTypeOK, PositionsOK
    <2> QED
      BY <2>1, <2>2 DEF Ids
  <1> QED
    BY <1>1, <1>2

\* Appending to the dead-letter log.
LEMMA AppendFacts ==
    ASSUME NEW s \in Seq(Ids), NEW i \in Ids
    PROVE  /\ Append(s, i) \in Seq(Ids)
           /\ DOMAIN s = 1..Len(s) /\ DOMAIN Append(s, i) = 1..(Len(s) + 1)
           /\ Len(Append(s, i)) = Len(s) + 1
           /\ Append(s, i)[Len(s) + 1] = i
           /\ \A d \in 1..Len(s) : Append(s, i)[d] = s[d]
           /\ \A d \in DOMAIN Append(s, i) :
                 Append(s, i)[d] = i \/ (d \in DOMAIN s /\ Append(s, i)[d] = s[d])
  <1>1. Append(s, i) \in Seq(Ids) /\ Len(Append(s, i)) = Len(s) + 1 /\ Len(s) \in Nat
    OBVIOUS
  <1>2. DOMAIN s = 1..Len(s) /\ DOMAIN Append(s, i) = 1..(Len(s) + 1)
    BY <1>1
  <1>3. Append(s, i)[Len(s) + 1] = i /\ \A d \in 1..Len(s) : Append(s, i)[d] = s[d]
    OBVIOUS
  <1>4. ASSUME NEW d \in DOMAIN Append(s, i)
        PROVE  Append(s, i)[d] = i \/ (d \in DOMAIN s /\ Append(s, i)[d] = s[d])
    <2>1. d \in 1..Len(s) \/ d = Len(s) + 1
      BY <1>1, <1>2
    <2> QED
      BY <1>2, <1>3, <2>1, Zenon
  <1> QED
    BY <1>1, <1>2, <1>3, <1>4, Zenon

\* What every step of a replica on a message of its batch has in common.
LEMMA MessageFrame ==
    ASSUME Typed, NEW c \in Consumers, NEW i \in Ids,
           LoopTypeOK', \A k \in Consumers : batch'[k] \subseteq batch[k],
           UNCHANGED <<stream, replayerVars>>,
           UNCHANGED groupVars \/ Ack(i),
           UNCHANGED envVars \/ Fault,
           OutcomeTypeOK',
           \/ UNCHANGED dlqLog
           \/ dlqLog' = Append(dlqLog, i) /\ i \in batch[c]
    PROVE  Typed'
  <1>1. GroupTypeOK /\ LoopTypeOK /\ OutcomeTypeOK /\ ReplayerTypeOK /\ EnvTypeOK /\ PositionsOK
    BY DEF Typed, TypeOK
  <1>2. /\ count' \in [Ids -> Nat] /\ idle' \subseteq idle /\ last' = last
        /\ \A j \in Ids : count'[j] \in {0, count[j]}
        /\ \A j \in idle' : count'[j] = count[j]
    BY <1>1, AckSteps DEF groupVars, GroupTypeOK
  <1>3. GroupTypeOK'
    BY <1>1, <1>2 DEF GroupTypeOK
  <1>4. EnvTypeOK'
    BY <1>1, EnvSteps
  <1>5. dlqLog \in Seq(Ids) /\ Len(dlqLog') >= Len(dlqLog) /\ Len(dlqLog) \in Nat /\ Len(dlqLog') \in Nat
    BY <1>1 DEF OutcomeTypeOK
  <1>6. ReplayerTypeOK'
    BY <1>1, <1>5 DEF ReplayerTypeOK, replayerVars
  <1>7. PositionsOK'
    <2>1. \A k \in Consumers : batch'[k] \subseteq 1..last'
      BY <1>1, <1>2 DEF PositionsOK
    <2>2. (\A j \in Ids : count'[j] > 0 => j <= last') /\ (\A j \in idle' : count'[j] > 0)
      BY <1>1, <1>2 DEF PositionsOK, GroupTypeOK
    <2>3. \A d \in DOMAIN dlqLog' : dlqLog'[d] <= last'
      <3>1. CASE UNCHANGED dlqLog
        BY <1>1, <1>2, <3>1 DEF PositionsOK
      <3>2. CASE dlqLog' = Append(dlqLog, i) /\ i \in batch[c]
        <4>1. i <= last
          BY <1>1, <3>2 DEF PositionsOK
        <4>2. \A d \in DOMAIN dlqLog' : dlqLog'[d] = i \/ (d \in DOMAIN dlqLog /\ dlqLog'[d] = dlqLog[d])
          BY <1>5, <3>2, AppendFacts
        <4> QED
          BY <1>1, <1>2, <4>1, <4>2 DEF PositionsOK
      <3> QED
        BY <3>1, <3>2
    <2> QED
      BY <2>1, <2>2, <2>3 DEF PositionsOK
  <1> QED
    BY <1>3, <1>4, <1>6, <1>7 DEF Typed, TypeOK

LEMMA MessageTyped ==
    ASSUME Typed, NEW c \in Consumers, NEW i \in Ids, Message(c, i)
    PROVE  Typed'
  <1>1. LoopTypeOK /\ OutcomeTypeOK /\ GroupTypeOK
    BY DEF Typed, TypeOK
  <1>2. CASE TakePill(c, i) \/ TakeMalformed(c, i) \/ Reject(c, i)
    <2>1. \E w \in {"handle", "publish", "ack", "respond", "bury", "settle"} : Goto(c, w)
      BY <1>2 DEF TakePill, TakeMalformed, Reject
    <2>2. UNCHANGED <<stream, groupVars, outcomeVars, replayerVars, envVars>>
      BY <1>2 DEF TakePill, TakeMalformed, Reject
    <2>3. OutcomeTypeOK' /\ UNCHANGED dlqLog
      BY <1>1, <2>2 DEF outcomeVars, OutcomeTypeOK
    <2> QED
      BY <1>1, <2>1, <2>2, <2>3, LoopSteps, MessageFrame
  <1>3. CASE TakeCommand(c, i)
    <2>1. LoopTypeOK' /\ UNCHANGED batch
      <3>1. count[i] \in Nat
        BY <1>1 DEF GroupTypeOK
      <3>2. \E n \in Nat : seen' = [seen EXCEPT ![c] = n]
        BY <1>3, <3>1 DEF TakeCommand
      <3> QED
        BY <1>1, <1>3, <3>2 DEF TakeCommand, LoopTypeOK
    <2>2. UNCHANGED <<stream, groupVars, outcomeVars, replayerVars>> /\ (UNCHANGED envVars \/ Fault)
      BY <1>3 DEF TakeCommand
    <2>3. OutcomeTypeOK' /\ UNCHANGED dlqLog
      BY <1>1, <2>2 DEF outcomeVars, OutcomeTypeOK
    <2> QED
      BY <2>1, <2>2, <2>3, MessageFrame
  <1>4. CASE Execute(c, i) \/ HandlerError(c, i)
    <2>1. \/ \E w \in {"handle", "publish", "ack", "respond", "bury", "settle"} : Goto(c, w)
          \/ RetryOrBury(c, i)
      BY <1>4 DEF Execute, HandlerError
    <2>2. /\ UNCHANGED <<stream, groupVars, responses, dlqLog, dlqLive, lost, replayerVars, envVars>>
          /\ UNCHANGED gone \/ gone' = gone \cup ({Cmd(i)} \cap Deletes)
      BY <1>4 DEF Execute, HandlerError
    <2>3. OutcomeTypeOK'
      BY <1>1, <2>2 DEF OutcomeTypeOK
    <2> QED
      BY <1>1, <2>1, <2>2, <2>3, LoopSteps, MessageFrame
  <1>5. CASE Publish(c, i) \/ PublishFault(c, i) \/ Respond(c, i)
    <2>1. \/ \E w \in {"handle", "publish", "ack", "respond", "bury", "settle"} : Goto(c, w)
          \/ RetryOrBury(c, i)
      BY <1>5 DEF Publish, PublishFault, Respond
    <2>2. /\ UNCHANGED <<stream, groupVars, gone, dlqLog, dlqLive, lost, replayerVars>>
          /\ UNCHANGED envVars \/ Fault
          /\ UNCHANGED responses \/ \E k \in {"ok", "failed"} : Answer(i, k)
      BY <1>5 DEF Publish, PublishFault, Respond
    <2>3. OutcomeTypeOK'
      BY <1>1, <2>2 DEF OutcomeTypeOK, Answer
    <2> QED
      BY <1>1, <2>1, <2>2, <2>3, LoopSteps, MessageFrame
  <1>6. CASE AckHandled(c, i) \/ AckHandledFault(c, i) \/ Settle(c, i) \/ SettleFault(c, i)
    <2>1. Continue(c, i) \/ Abandon(c) \/ RetryOrBury(c, i)
      BY <1>6 DEF AckHandled, AckHandledFault, Settle, SettleFault
    <2>2. /\ UNCHANGED <<stream, outcomeVars, replayerVars>>
          /\ UNCHANGED envVars \/ Fault
          /\ UNCHANGED groupVars \/ Ack(i)
      BY <1>6 DEF AckHandled, AckHandledFault, Settle, SettleFault
    <2>3. OutcomeTypeOK' /\ UNCHANGED dlqLog
      BY <1>1, <2>2 DEF outcomeVars, OutcomeTypeOK
    <2> QED
      BY <1>1, <2>1, <2>2, <2>3, LoopSteps, MessageFrame
  <1>7. CASE Bury(c, i) \/ BuryFault(c, i)
    <2>1. \E w \in {"handle", "publish", "ack", "respond", "bury", "settle"} : Goto(c, w)
      BY <1>7 DEF Bury, BuryFault
    <2>2. /\ UNCHANGED <<stream, groupVars, gone, responses, replayerVars>>
          /\ UNCHANGED envVars \/ Fault
          /\ i \in batch[c]
      BY <1>7 DEF Bury, BuryFault, At
    <2>3. /\ UNCHANGED lost \/ lost' = lost \cup {i}
          /\ UNCHANGED <<dlqLog, dlqLive>> \/ AddLetter(i)
      BY <1>7 DEF Bury, BuryFault
    <2>4. OutcomeTypeOK'
      <3>1. CASE UNCHANGED <<dlqLog, dlqLive>>
        BY <1>1, <2>2, <2>3, <3>1 DEF OutcomeTypeOK
      <3>2. CASE AddLetter(i)
        <4>1. /\ dlqLog' \in Seq(Ids) /\ Len(dlqLog') \in Nat
              /\ Len(dlqLog') = Len(dlqLog) + 1 /\ Len(dlqLog) \in Nat
          BY <1>1, <3>2, AppendFacts DEF OutcomeTypeOK, AddLetter
        <4>2. dlqLive' \subseteq 1..Len(dlqLog')
          <5>1. dlqLive \subseteq 1..Len(dlqLog) /\ dlqLive' = dlqLive \cup {Len(dlqLog) + 1}
            BY <1>1, <3>2 DEF OutcomeTypeOK, AddLetter
          <5>2. \A n, m \in Nat : m = n + 1 => 1..n \subseteq 1..m /\ n + 1 \in 1..m
            OBVIOUS
          <5>3. 1..Len(dlqLog) \subseteq 1..Len(dlqLog') /\ Len(dlqLog) + 1 \in 1..Len(dlqLog')
            BY <4>1, <5>2
          <5> QED
            BY <5>1, <5>3
        <4>3. /\ gone' \subseteq Deletes /\ lost' \subseteq Ids
              /\ responses' \subseteq [src : Ids, kind : {"ok", "failed"}]
          BY <1>1, <2>2, <2>3 DEF OutcomeTypeOK
        <4> QED
          BY <4>1, <4>2, <4>3 DEF OutcomeTypeOK
      <3> QED
        BY <2>3, <3>1, <3>2
    <2>5. LoopTypeOK' /\ \A k \in Consumers : batch'[k] \subseteq batch[k]
      BY <1>1, <2>1, LoopSteps
    <2>6. \/ UNCHANGED dlqLog
          \/ dlqLog' = Append(dlqLog, i) /\ i \in batch[c]
      BY <2>2, <2>3 DEF AddLetter
    <2>7. UNCHANGED <<stream, replayerVars>> /\ UNCHANGED groupVars
      BY <2>2
    <2> QED
      BY <2>2, <2>4, <2>5, <2>6, <2>7, MessageFrame
  <1> QED
    BY <1>2, <1>3, <1>4, <1>5, <1>6, <1>7 DEF Message

\* The batch a replica is handed, by XAUTOCLAIM or by XREADGROUP.
LEMMA HandoutTyped ==
    ASSUME Typed, NEW c \in Consumers, NEW S \in SUBSET Ids,
           \/ S \subseteq idle /\ last' = last
           \/ S = Fresh /\ last' = Newest,
           Deliver(S),
           LoopTypeOK',
           \A k \in Consumers : batch'[k] = batch[k] \/ batch'[k] = S,
           UNCHANGED <<stream, outcomeVars, replayerVars>>,
           UNCHANGED envVars \/ Fault
    PROVE  Typed'
  <1>1. GroupTypeOK /\ LoopTypeOK /\ OutcomeTypeOK /\ ReplayerTypeOK /\ EnvTypeOK /\ PositionsOK
    BY DEF Typed, TypeOK
  <1>2. /\ last \in Nat /\ Len(stream) \in Nat /\ last <= Len(stream)
        /\ last' \in last..Len(stream)
        /\ S \subseteq 1..last'
    <2>1. last \in Nat /\ Len(stream) \in Nat /\ last <= Len(stream)
      BY <1>1, IdsFacts
    <2>2. CASE S \subseteq idle /\ last' = last
      <3>1. \A i \in S : i \in Ids /\ i <= last
        BY <1>1, <2>2 DEF PositionsOK, GroupTypeOK
      <3> QED
        BY <2>1, <2>2, <3>1 DEF Ids
    <2>3. CASE S = Fresh /\ last' = Newest
      BY <1>1, <2>1, <2>3, FreshFacts
    <2> QED
      BY <2>1, <2>2, <2>3
  <1>3. /\ count' \in [Ids -> Nat] /\ idle' = idle \ S
        /\ \A i \in Ids : count'[i] = IF i \in S THEN count[i] + 1 ELSE count[i]
    BY <1>1, DeliverSteps
  <1>4. GroupTypeOK'
    BY <1>1, <1>2, <1>3 DEF GroupTypeOK
  <1>5. EnvTypeOK'
    BY <1>1, EnvSteps
  <1>6. OutcomeTypeOK' /\ ReplayerTypeOK' /\ UNCHANGED dlqLog
    BY <1>1 DEF OutcomeTypeOK, ReplayerTypeOK, outcomeVars, replayerVars
  <1>7. PositionsOK'
    <2>1. \A k \in Consumers : batch'[k] \subseteq 1..last'
      <3>1. 1..last \subseteq 1..last'
        BY <1>2
      <3>2. \A k \in Consumers : batch[k] \subseteq 1..last
        BY <1>1 DEF PositionsOK
      <3> QED
        BY <1>2, <3>1, <3>2
    <2>2. \A i \in Ids : count'[i] > 0 => i <= last'
      BY <1>1, <1>2, <1>3 DEF PositionsOK, GroupTypeOK, Ids
    <2>3. \A i \in idle' : count'[i] > 0
      BY <1>1, <1>3 DEF PositionsOK, GroupTypeOK
    <2>4. \A d \in DOMAIN dlqLog' : dlqLog'[d] <= last'
      <3>1. \A d \in DOMAIN dlqLog : dlqLog[d] \in Nat
        <4>1. \A d \in DOMAIN dlqLog : dlqLog[d] \in Ids
          BY <1>1 DEF OutcomeTypeOK
        <4> QED
          BY <4>1 DEF Ids
      <3> QED
        BY <1>1, <1>2, <1>6, <3>1 DEF PositionsOK
    <2> QED
      BY <2>1, <2>2, <2>3, <2>4 DEF PositionsOK
  <1> QED
    BY <1>4, <1>5, <1>6, <1>7 DEF Typed, TypeOK

\* Steps that leave the group's lists, the dead letters and the stream's past
\* alone.
LEMMA QuietTyped ==
    ASSUME Typed, LoopTypeOK', ReplayerTypeOK', EnvTypeOK', OutcomeTypeOK',
           UNCHANGED <<groupVars, dlqLog>>,
           \A k \in Consumers : batch'[k] \subseteq batch[k],
           \/ UNCHANGED stream
           \/ \E m \in Commands \cup {Pill}, d \in Nat : AddEntry(m, d)
    PROVE  Typed'
  <1>1. GroupTypeOK /\ PositionsOK
    BY DEF Typed, TypeOK
  <1>2. GroupTypeOK'
    <2>1. CASE UNCHANGED stream
      BY <1>1, <2>1 DEF GroupTypeOK, groupVars
    <2>2. CASE \E m \in Commands \cup {Pill}, d \in Nat : AddEntry(m, d)
      BY <1>1, <2>2, AddEntryGroup
    <2> QED
      BY <2>1, <2>2
  <1>3. PositionsOK'
    BY <1>1 DEF PositionsOK, groupVars
  <1> QED
    BY <1>2, <1>3 DEF Typed, TypeOK

LEMMA LoopTyped ==
    ASSUME Typed, NEW c \in Consumers, Loop(c)
    PROVE  Typed'
  <1>1. GroupTypeOK /\ LoopTypeOK /\ OutcomeTypeOK /\ ReplayerTypeOK /\ EnvTypeOK /\ PositionsOK
    BY DEF Typed, TypeOK
  <1>2. Oldest(idle) \subseteq idle /\ Oldest(idle) \subseteq Ids /\ Fresh \subseteq Ids
    BY <1>1, OldestSubset, FreshFacts DEF GroupTypeOK
  <1>3. CASE Reclaim(c)
    <2>1. /\ Deliver(Oldest(idle)) /\ batch' = [batch EXCEPT ![c] = Oldest(idle)]
          /\ last' = last /\ UNCHANGED <<stream, outcomeVars, replayerVars, envVars>>
      BY <1>3 DEF Reclaim
    <2>2. LoopTypeOK' /\ \A k \in Consumers : batch'[k] = batch[k] \/ batch'[k] = Oldest(idle)
      BY <1>1, <1>2, <1>3 DEF Reclaim, LoopTypeOK
    <2> QED
      BY <1>2, <2>1, <2>2, HandoutTyped
  <1>4. CASE Read(c)
    <2>1. /\ Deliver(Fresh) /\ batch' = [batch EXCEPT ![c] = Fresh]
          /\ last' = Newest /\ UNCHANGED <<stream, outcomeVars, replayerVars, envVars>>
      BY <1>4 DEF Read
    <2>2. LoopTypeOK' /\ \A k \in Consumers : batch'[k] = batch[k] \/ batch'[k] = Fresh
      BY <1>1, <1>2, <1>4 DEF Read, LoopTypeOK, Top
    <2> QED
      BY <1>2, <2>1, <2>2, HandoutTyped
  <1>5. CASE ReclaimFault(c) \/ ReadFault(c)
    <2>1. /\ Fault /\ UNCHANGED <<stream, outcomeVars, replayerVars, batch>>
          /\ \/ UNCHANGED groupVars
             \/ Deliver(Oldest(idle)) /\ last' = last
             \/ Deliver(Fresh) /\ last' = Newest
      BY <1>5 DEF ReclaimFault, ReadFault, groupVars
    <2>2. LoopTypeOK'
      BY <1>1, <1>5 DEF ReclaimFault, ReadFault, LoopTypeOK, Top
    <2>3. CASE UNCHANGED groupVars
      <3>1. EnvTypeOK'
        BY <1>1, <2>1, EnvSteps
      <3>2. OutcomeTypeOK' /\ ReplayerTypeOK' /\ UNCHANGED dlqLog
        BY <1>1, <2>1 DEF OutcomeTypeOK, ReplayerTypeOK, outcomeVars, replayerVars
      <3> QED
        BY <2>1, <2>2, <2>3, <3>1, <3>2, QuietTyped
    <2>4. CASE Deliver(Oldest(idle)) /\ last' = last
      BY <1>2, <2>1, <2>2, <2>4, HandoutTyped
    <2>5. CASE Deliver(Fresh) /\ last' = Newest
      BY <1>2, <2>1, <2>2, <2>5, HandoutTyped
    <2> QED
      BY <2>1, <2>3, <2>4, <2>5
  <1>6. CASE \E i \in Ids : Message(c, i)
    BY <1>6, MessageTyped
  <1> QED
    BY <1>3, <1>4, <1>5, <1>6 DEF Loop

LEMMA LetterTyped ==
    ASSUME Typed, NEW r \in Replayers,
           List(r) \/ ReplayerCrash(r) \/ \E d \in todo[r] : Letter(r, d)
    PROVE  Typed'
  <1>1. GroupTypeOK /\ LoopTypeOK /\ OutcomeTypeOK /\ ReplayerTypeOK /\ EnvTypeOK /\ PositionsOK
    BY DEF Typed, TypeOK
  <1>2. CASE List(r)
    <2>1. UNCHANGED <<stream, groupVars, loopVars, outcomeVars, envVars>>
      BY <1>2 DEF List
    <2>2. ReplayerTypeOK'
      BY <1>1, <1>2, <2>1 DEF List, ReplayerTypeOK, OutcomeTypeOK, outcomeVars
    <2>3. LoopTypeOK' /\ OutcomeTypeOK' /\ EnvTypeOK' /\ UNCHANGED <<dlqLog, batch>>
      BY <1>1, <2>1 DEF LoopTypeOK, OutcomeTypeOK, EnvTypeOK, loopVars, outcomeVars, envVars
    <2> QED
      BY <2>1, <2>2, <2>3, QuietTyped
  <1>3. CASE ReplayerCrash(r)
    <2>1. UNCHANGED <<stream, groupVars, loopVars, outcomeVars>>
      BY <1>3 DEF ReplayerCrash
    <2>2. ReplayerTypeOK'
      BY <1>1, <1>3, <2>1 DEF ReplayerCrash, ReplayerTypeOK, outcomeVars
    <2>3. LoopTypeOK' /\ OutcomeTypeOK' /\ UNCHANGED <<dlqLog, batch>>
      BY <1>1, <2>1 DEF LoopTypeOK, OutcomeTypeOK, loopVars, outcomeVars
    <2>4. EnvTypeOK'
      BY <1>1, <1>3, EnvSteps DEF ReplayerCrash
    <2> QED
      BY <2>1, <2>2, <2>3, <2>4, QuietTyped
  <1>4. ASSUME NEW d \in todo[r], Letter(r, d)
        PROVE  Typed'
    <2>1. /\ UNCHANGED <<groupVars, loopVars, dlqLog, gone, responses, lost>>
          /\ dlqLive' \subseteq dlqLive
          /\ UNCHANGED envVars \/ Fault
      BY <1>4 DEF Letter, SkipLetter, CheckLetter, Reinject, ReinjectFault, RemoveLetter,
                  RemoveLetterFault, outcomeVars
    <2>2. \/ NextLetter(r, d)
          \/ \E w \in {"xadd", "xdel"} : rpc' = [rpc EXCEPT ![r] = w] /\ UNCHANGED todo
      BY <1>4 DEF Letter, SkipLetter, CheckLetter, Reinject, ReinjectFault, RemoveLetter,
                  RemoveLetterFault
    <2>3. d \in 1..Len(dlqLog) /\ d \in DOMAIN dlqLog /\ d \in Nat
      BY <1>1 DEF ReplayerTypeOK, OutcomeTypeOK
    <2>4. UNCHANGED stream \/ AddEntry(Cmd(dlqLog[d]), d)
      BY <1>4 DEF Letter, SkipLetter, CheckLetter, Reinject, ReinjectFault, RemoveLetter,
                  RemoveLetterFault
    <2>5. \/ UNCHANGED stream
          \/ \E m \in Commands \cup {Pill}, e \in Nat : AddEntry(m, e)
      BY <2>3, <2>4, CommandOf
    <2>6. ReplayerTypeOK'
      BY <1>1, <2>1, <2>2, LetterSteps DEF ReplayerTypeOK
    <2>7. LoopTypeOK' /\ UNCHANGED batch
      BY <1>1, <2>1 DEF LoopTypeOK, loopVars
    <2>8. OutcomeTypeOK'
      BY <1>1, <2>1 DEF OutcomeTypeOK
    <2>9. EnvTypeOK'
      BY <1>1, <2>1, EnvSteps
    <2> QED
      BY <2>1, <2>5, <2>6, <2>7, <2>8, <2>9, QuietTyped
  <1> QED
    BY <1>2, <1>3, <1>4

\* crm-collab, the clock and the process manager.
LEMMA EnvironmentTyped ==
    ASSUME Typed,
           \/ \E m \in Commands : Produce(m) \/ Expire(m)
           \/ \E i \in Ids : GoIdle(i)
           \/ \E c \in Consumers : Start(c) \/ Stop(c) \/ Crash(c)
    PROVE  Typed'
  <1>1. GroupTypeOK /\ LoopTypeOK /\ OutcomeTypeOK /\ ReplayerTypeOK /\ EnvTypeOK /\ PositionsOK
    BY DEF Typed, TypeOK
  <1>2. ASSUME UNCHANGED <<outcomeVars, replayerVars>>
        PROVE  OutcomeTypeOK' /\ ReplayerTypeOK' /\ UNCHANGED dlqLog
    BY <1>1, <1>2 DEF OutcomeTypeOK, ReplayerTypeOK, outcomeVars, replayerVars
  <1>3. ASSUME NEW m \in Commands, Produce(m)
        PROVE  Typed'
    <2>1. AddEntry(m, 0) /\ UNCHANGED <<groupVars, loopVars, outcomeVars, replayerVars, envVars>>
      BY <1>3 DEF Produce
    <2>2. LoopTypeOK' /\ EnvTypeOK' /\ UNCHANGED batch
      BY <1>1, <2>1 DEF LoopTypeOK, EnvTypeOK, loopVars, envVars
    <2> QED
      BY <1>2, <2>1, <2>2, QuietTyped
  <1>4. ASSUME NEW m \in Commands, Expire(m)
        PROVE  Typed'
    <2>1. UNCHANGED <<stream, groupVars, loopVars, outcomeVars, replayerVars>>
      BY <1>4 DEF Expire
    <2>2. LoopTypeOK' /\ EnvTypeOK' /\ UNCHANGED batch
      BY <1>1, <1>4, <2>1 DEF LoopTypeOK, EnvTypeOK, loopVars, Expire
    <2> QED
      BY <1>2, <2>1, <2>2, QuietTyped
  <1>5. ASSUME NEW i \in Ids, GoIdle(i)
        PROVE  Typed'
    <2>1. /\ count[i] > 0 /\ idle' = idle \cup {i}
          /\ UNCHANGED <<stream, last, count, loopVars, outcomeVars, replayerVars, envVars>>
      BY <1>5 DEF GoIdle
    <2>2. GroupTypeOK' /\ PositionsOK'
      <3>1. UNCHANGED <<batch, dlqLog>>
        BY <2>1 DEF loopVars, outcomeVars
      <3> QED
        BY <1>1, <2>1, <3>1 DEF GroupTypeOK, PositionsOK
    <2>3. LoopTypeOK' /\ EnvTypeOK'
      BY <1>1, <2>1 DEF LoopTypeOK, EnvTypeOK, loopVars, envVars
    <2> QED
      BY <1>2, <2>1, <2>2, <2>3 DEF Typed, TypeOK
  <1>6. ASSUME NEW c \in Consumers, Start(c) \/ Stop(c) \/ Crash(c)
        PROVE  Typed'
    <2>1. /\ UNCHANGED <<groupVars, outcomeVars, replayerVars>>
          /\ UNCHANGED stream \/ AddEntry(Pill, 0)
      BY <1>6 DEF Start, Stop, Crash
    <2>2. LoopTypeOK' /\ \A k \in Consumers : batch'[k] \subseteq batch[k]
      <3>1. CASE Start(c) \/ Stop(c)
        BY <1>1, <3>1 DEF LoopTypeOK, Start, Stop
      <3>2. CASE Crash(c)
        BY <1>1, <3>2 DEF LoopTypeOK, Crash
      <3> QED
        BY <1>6, <3>1, <3>2
    <2>3. EnvTypeOK'
      <3>1. CASE Start(c) \/ Stop(c)
        BY <1>1, <3>1 DEF EnvTypeOK, envVars, Start, Stop
      <3>2. CASE Crash(c)
        BY <1>1, <3>2, ConstantsOK DEF EnvTypeOK, ConstantsOK, Crash
      <3> QED
        BY <1>6, <3>1, <3>2
    <2> QED
      BY <1>2, <2>1, <2>2, <2>3, QuietTyped
  <1> QED
    BY <1>3, <1>4, <1>5, <1>6

LEMMA TypedStep == Typed /\ [Next]_vars => Typed'
  <1>1. CASE UNCHANGED vars
    BY <1>1 DEF vars, groupVars, loopVars, outcomeVars, replayerVars, envVars, Typed, TypeOK,
                GroupTypeOK, LoopTypeOK, OutcomeTypeOK, ReplayerTypeOK, EnvTypeOK, PositionsOK
  <1>2. ASSUME Typed, Next
        PROVE  Typed'
    BY <1>2, EnvironmentTyped, LoopTyped, LetterTyped DEF Next
  <1> QED
    BY <1>1, <1>2

LEMMA TypedInit == Init => Typed
  BY ConstantsOK DEF Init, Typed, TypeOK, GroupTypeOK, LoopTypeOK, OutcomeTypeOK, ReplayerTypeOK,
         EnvTypeOK, PositionsOK, ConstantsOK, Ids

\* Every variable has its type: the group's cursor never passes the end of the
\* stream, only delivered entries are ever in a batch, pending, idle or
\* dead-lettered, and replayers only hold letters that were written.
THEOREM TypeCorrect == Spec => []TypeOK
  <1>1. Typed => TypeOK
    BY DEF Typed
  <1> QED
    BY <1>1, TypedInit, TypedStep, PTL DEF Spec

-----------------------------------------------------------------------------
(* Acknowledgements are earned.  What settles an entry (its answer, its     *)
(* dead letter, the logged loss) is never taken back, and an entry becomes  *)
(* acknowledged, or a replica gets ready to acknowledge it, only by a step  *)
(* that follows from one of them.                                           *)

\* The streams only grow, and entries keep what settles them.
Grows ==
    /\ Len(stream) <= Len(stream')
    /\ \A i \in 1..Len(stream) : stream'[i] = stream[i]
    /\ responses \subseteq responses'
    /\ lost \subseteq lost'
    /\ \A i \in Ids : Dead(i) => Dead(i)'

\* An entry becomes acknowledged by a replica that is at its acknowledgement.
AcksAreEarned ==
    \A i \in Ids : Acked(i)' =>
        Acked(i) \/ \E c \in Consumers : At(c, i, "ack") \/ At(c, i, "settle")

\* A replica gets to an acknowledgement by answering or by burying the entry.
MovesAreEarned ==
    \A c \in Consumers, i \in Ids :
        /\ At(c, i, "ack")' => At(c, i, "ack") \/ Answered(i)'
        /\ At(c, i, "settle")' =>
              At(c, i, "settle") \/ (Cmd(i)' = Pill \/ Dead(i)' \/ i \in lost')

LEMMA SameOutcome ==
    ASSUME Typed, UNCHANGED <<responses, dlqLog, lost>>,
           \/ UNCHANGED stream
           \/ \E m \in Commands \cup {Pill}, d \in Nat : AddEntry(m, d)
    PROVE  Grows
  <1>1. GroupTypeOK /\ Len(stream) \in Nat
    BY IdsFacts DEF Typed, TypeOK
  <1>2. Len(stream) <= Len(stream') /\ \A i \in 1..Len(stream) : stream'[i] = stream[i]
    <2>1. CASE UNCHANGED stream
      BY <1>1, <2>1
    <2>2. CASE \E m \in Commands \cup {Pill}, d \in Nat : AddEntry(m, d)
      <3>1. Len(stream') = Len(stream) + 1 /\ \A i \in 1..Len(stream) : stream'[i] = stream[i]
        BY <1>1, <2>2, AddEntrySteps
      <3> QED
        BY <1>1, <3>1
    <2> QED
      BY <2>1, <2>2
  <1>3. \A i \in Ids : Dead(i) => Dead(i)'
    BY DEF Dead
  <1> QED
    BY <1>2, <1>3 DEF Grows

\* Handing entries out, or nothing at all, acknowledges nothing.
LEMMA HandoutEarned ==
    ASSUME Typed, Typed',
           \/ UNCHANGED <<last, count>>
           \/ \E S \in SUBSET Ids : Deliver(S) /\ last' = last
           \/ Deliver(Fresh) /\ last' = Newest
    PROVE  AcksAreEarned
  <1>1. GroupTypeOK
    BY DEF Typed, TypeOK
  <1>2. CASE UNCHANGED <<last, count>>
    BY <1>2 DEF AcksAreEarned, Acked
  <1>3. CASE \E S \in SUBSET Ids : Deliver(S) /\ last' = last
    <2>1. PICK S \in SUBSET Ids : Deliver(S) /\ last' = last
      BY <1>3
    <2>2. \A i \in Ids : count'[i] = IF i \in S THEN count[i] + 1 ELSE count[i]
      BY <1>1, <2>1, DeliverSteps
    <2> QED
      BY <1>1, <2>1, <2>2 DEF AcksAreEarned, Acked, GroupTypeOK
  <1>4. CASE Deliver(Fresh) /\ last' = Newest
    <2>1. /\ Fresh \in SUBSET Ids
          /\ \A i \in Ids : count'[i] = IF i \in Fresh THEN count[i] + 1 ELSE count[i]
      BY <1>1, <1>4, FreshFacts, DeliverSteps
    <2>2. \A i \in Ids : i <= last' => i <= last \/ i \in Fresh
      BY <1>1, <1>4, IdsFacts, FreshFacts DEF Fresh, Ids
    <2> QED
      BY <1>1, <2>1, <2>2 DEF AcksAreEarned, Acked, GroupTypeOK
  <1> QED
    BY <1>2, <1>3, <1>4

\* A step that leads no replica to an acknowledgement.
LEMMA QuietMoves ==
    ASSUME \A c \in Consumers :
               \/ pc'[c] = pc[c] /\ batch'[c] = batch[c]
               \/ pc'[c] \notin {"ack", "settle"}
    PROVE  MovesAreEarned
  BY DEF MovesAreEarned, At

\* The entry at the head of a batch is one.
LEMMA HeadIsUnique ==
    ASSUME Typed, NEW c \in Consumers, NEW i \in Ids, NEW j \in Ids, NEW v, NEW w,
           At(c, i, v), At(c, j, w)
    PROVE  i = j
  BY DEF At, Ids

LEMMA MessageEarned ==
    ASSUME Typed, Typed', NEW c \in Consumers, NEW i \in Ids, Message(c, i)
    PROVE  Grows /\ AcksAreEarned /\ MovesAreEarned
  <1>1. GroupTypeOK /\ LoopTypeOK /\ OutcomeTypeOK
    BY DEF Typed, TypeOK
  <1>2. ASSUME NEW w \in {"handle", "publish", "ack", "respond", "bury", "settle"}, Goto(c, w),
               w = "ack" => Answered(i)',
               w = "settle" => (Cmd(i)' = Pill \/ Dead(i)' \/ i \in lost'),
               i \in batch[c], \A j \in batch[c] : i <= j
        PROVE  MovesAreEarned
    <2>1. /\ batch' = batch
          /\ \A k \in Consumers : pc'[k] = IF k = c THEN w ELSE pc[k]
      BY <1>1, <1>2 DEF Goto, LoopTypeOK
    <2>2. ASSUME NEW k \in Consumers, NEW j \in Ids
          PROVE  /\ At(k, j, "ack")' => At(k, j, "ack") \/ Answered(j)'
                 /\ At(k, j, "settle")' =>
                       At(k, j, "settle") \/ (Cmd(j)' = Pill \/ Dead(j)' \/ j \in lost')
      <3>1. CASE k # c
        BY <2>1, <3>1 DEF At
      <3>2. CASE k = c
        <4>1. j \in batch[c] /\ (\A h \in batch[c] : j <= h) => i = j
          BY <1>2 DEF Ids
        <4> QED
          BY <1>2, <2>1, <3>2, <4>1 DEF At
      <3> QED
        BY <3>1, <3>2
    <2> QED
      BY <2>2 DEF MovesAreEarned
  <1>3. ASSUME Continue(c, i) \/ Abandon(c) \/ RetryOrBury(c, i)
        PROVE  MovesAreEarned
    <2>1. \A k \in Consumers :
              \/ pc'[k] = pc[k] /\ batch'[k] = batch[k]
              \/ pc'[k] \notin {"ack", "settle"}
      BY <1>1, <1>3 DEF Continue, Abandon, RetryOrBury, Goto, EndOfBatch, Top, LoopTypeOK
    <2> QED
      BY <2>1, QuietMoves
  <1>4. CASE TakePill(c, i) \/ TakeMalformed(c, i) \/ Reject(c, i) \/ Execute(c, i) \/ HandlerError(c, i)
    <2>1. UNCHANGED <<stream, last, count, responses, dlqLog, lost>>
      BY <1>4 DEF TakePill, TakeMalformed, Reject, Execute, HandlerError, groupVars, outcomeVars
    <2>2. CASE RetryOrBury(c, i)
      BY <1>3, <2>1, <2>2, SameOutcome, HandoutEarned
    <2>3. CASE \/ Goto(c, "settle") /\ Cmd(i) = Pill
               \/ Goto(c, "respond")
               \/ Goto(c, "publish")
      <3>1. i \in batch[c] /\ \A j \in batch[c] : i <= j
        BY <1>4 DEF TakePill, TakeMalformed, Reject, Execute, HandlerError, At
      <3>2. Cmd(i)' = Cmd(i)
        BY <2>1 DEF Cmd
      <3> QED
        BY <1>2, <2>1, <2>3, <3>1, <3>2, SameOutcome, HandoutEarned
    <2> QED
      BY <1>4, <2>2, <2>3 DEF TakePill, TakeMalformed, Reject, Execute, HandlerError
  <1>5. CASE TakeCommand(c, i)
    <2>1. UNCHANGED <<stream, last, count, responses, dlqLog, lost, batch>>
      BY <1>5 DEF TakeCommand, groupVars, outcomeVars
    <2>2. \A k \in Consumers : pc'[k] = pc[k] \/ pc'[k] = "handle"
      BY <1>1, <1>5 DEF TakeCommand, LoopTypeOK
    <2> QED
      BY <2>1, <2>2, SameOutcome, HandoutEarned, QuietMoves
  <1>6. CASE Publish(c, i) \/ PublishFault(c, i) \/ Respond(c, i)
    <2>1. /\ UNCHANGED <<stream, last, count, dlqLog, lost>>
          /\ UNCHANGED responses \/ \E k \in {"ok", "failed"} : Answer(i, k)
      BY <1>6 DEF Publish, PublishFault, Respond, groupVars
    <2>2. Grows
      BY <1>1, <2>1 DEF Grows, Answer, Dead, OutcomeTypeOK, GroupTypeOK
    <2>3. AcksAreEarned
      BY <2>1, HandoutEarned
    <2>4. CASE RetryOrBury(c, i)
      BY <1>3, <2>2, <2>3, <2>4
    <2>5. CASE \/ Goto(c, "ack") /\ Answer(i, "ok")
               \/ Goto(c, "bury")
      <3>1. i \in batch[c] /\ \A j \in batch[c] : i <= j
        BY <1>6 DEF Publish, PublishFault, Respond, At
      <3>2. Answer(i, "ok") => Answered(i)'
        BY DEF Answer, Answered
      <3> QED
        BY <1>2, <2>2, <2>3, <2>5, <3>1, <3>2
    <2> QED
      BY <1>6, <2>4, <2>5 DEF Publish, PublishFault, Respond
  <1>7. CASE AckHandled(c, i) \/ AckHandledFault(c, i) \/ Settle(c, i) \/ SettleFault(c, i)
    <2>1. /\ UNCHANGED <<stream, responses, dlqLog, lost>>
          /\ UNCHANGED groupVars \/ Ack(i)
          /\ At(c, i, "ack") \/ At(c, i, "settle")
          /\ Continue(c, i) \/ Abandon(c) \/ RetryOrBury(c, i)
      BY <1>7 DEF AckHandled, AckHandledFault, Settle, SettleFault, outcomeVars
    <2>2. AcksAreEarned
      <3>1. CASE UNCHANGED groupVars
        BY <3>1, HandoutEarned DEF groupVars
      <3>2. CASE Ack(i)
        BY <1>1, <2>1, <3>2, AckSteps DEF AcksAreEarned, Acked
      <3> QED
        BY <2>1, <3>1, <3>2
    <2> QED
      BY <1>3, <2>1, <2>2, SameOutcome
  <1>8. CASE Bury(c, i) \/ BuryFault(c, i)
    <2>1. /\ UNCHANGED <<stream, last, count, responses>>
          /\ Goto(c, "settle")
          /\ i \in batch[c] /\ \A j \in batch[c] : i <= j
          /\ \/ UNCHANGED lost /\ AddLetter(i)
             \/ (UNCHANGED dlqLog \/ AddLetter(i)) /\ lost' = lost \cup {i}
      BY <1>8 DEF Bury, BuryFault, At, groupVars
    <2>2. (\A j \in Ids : Dead(j) => Dead(j)') /\ (Dead(i)' \/ i \in lost')
      <3>1. CASE UNCHANGED dlqLog /\ lost' = lost \cup {i}
        BY <3>1 DEF Dead
      <3>2. CASE AddLetter(i)
        <4>1. dlqLog \in Seq(Ids) /\ Len(dlqLog) \in Nat
          BY <1>1 DEF OutcomeTypeOK
        <4>2. /\ DOMAIN dlqLog = 1..Len(dlqLog) /\ DOMAIN dlqLog' = 1..(Len(dlqLog) + 1)
              /\ dlqLog'[Len(dlqLog) + 1] = i
              /\ \A d \in 1..Len(dlqLog) : dlqLog'[d] = dlqLog[d]
          BY <3>2, <4>1, AppendFacts DEF AddLetter
        <4> QED
          BY <4>1, <4>2 DEF Dead
      <3> QED
        BY <2>1, <3>1, <3>2
    <2>3. Grows
      BY <1>1, <2>1, <2>2 DEF Grows, GroupTypeOK
    <2>4. AcksAreEarned
      BY <2>1, HandoutEarned
    <2> QED
      BY <1>2, <2>1, <2>2, <2>3, <2>4
  <1> QED
    BY <1>4, <1>5, <1>6, <1>7, <1>8 DEF Message

LEMMA LoopEarned ==
    ASSUME Typed, Typed', NEW c \in Consumers, Loop(c)
    PROVE  Grows /\ AcksAreEarned /\ MovesAreEarned
  <1>1. GroupTypeOK /\ LoopTypeOK
    BY DEF Typed, TypeOK
  <1>2. CASE Reclaim(c) \/ Read(c) \/ ReclaimFault(c) \/ ReadFault(c)
    <2>1. /\ UNCHANGED <<stream, responses, dlqLog, lost>>
          /\ \/ UNCHANGED groupVars
             \/ Deliver(Oldest(idle)) /\ last' = last
             \/ Deliver(Fresh) /\ last' = Newest
      BY <1>2 DEF Reclaim, Read, ReclaimFault, ReadFault, outcomeVars, groupVars
    <2>2. Oldest(idle) \in SUBSET Ids
      BY <1>1, OldestSubset DEF GroupTypeOK
    <2>3. AcksAreEarned
      BY <2>1, <2>2, HandoutEarned DEF groupVars
    <2>4. \A k \in Consumers :
              \/ pc'[k] = pc[k] /\ batch'[k] = batch[k]
              \/ pc'[k] \notin {"ack", "settle"}
      BY <1>1, <1>2 DEF Reclaim, Read, ReclaimFault, ReadFault, Top, LoopTypeOK
    <2> QED
      BY <2>1, <2>3, <2>4, SameOutcome, QuietMoves
  <1>3. CASE \E i \in Ids : Message(c, i)
    BY <1>3, MessageEarned
  <1> QED
    BY <1>2, <1>3 DEF Loop

LEMMA LetterFrame ==
    ASSUME Typed, NEW r \in Replayers,
           List(r) \/ ReplayerCrash(r) \/ \E d \in todo[r] : Letter(r, d)
    PROVE  /\ UNCHANGED <<groupVars, loopVars, dlqLog, responses, lost>>
           /\ \/ UNCHANGED stream
              \/ \E m \in Commands \cup {Pill}, d \in Nat : AddEntry(m, d)
  <1>1. CASE List(r) \/ ReplayerCrash(r)
    BY <1>1 DEF List, ReplayerCrash, outcomeVars
  <1>2. ASSUME NEW d \in todo[r], Letter(r, d)
        PROVE  /\ UNCHANGED <<groupVars, loopVars, dlqLog, responses, lost>>
               /\ \/ UNCHANGED stream
                  \/ \E m \in Commands \cup {Pill}, e \in Nat : AddEntry(m, e)
    <2>1. /\ UNCHANGED <<groupVars, loopVars, dlqLog, responses, lost>>
          /\ UNCHANGED stream \/ AddEntry(Cmd(dlqLog[d]), d)
      BY <1>2 DEF Letter, SkipLetter, CheckLetter, Reinject, ReinjectFault, RemoveLetter,
                  RemoveLetterFault, outcomeVars
    <2>2. d \in DOMAIN dlqLog /\ d \in Nat
      BY DEF Typed, TypeOK, ReplayerTypeOK, OutcomeTypeOK
    <2> QED
      BY <2>1, <2>2, CommandOf
  <1> QED
    BY <1>1, <1>2

LEMMA StepEarned ==
    ASSUME Typed, Typed', [Next]_vars
    PROVE  Grows /\ AcksAreEarned /\ MovesAreEarned
  <1>1. ASSUME UNCHANGED <<last, count, responses, dlqLog, lost>>,
               \/ UNCHANGED stream
               \/ \E m \in Commands \cup {Pill}, d \in Nat : AddEntry(m, d),
               \A k \in Consumers :
                   \/ pc'[k] = pc[k] /\ batch'[k] = batch[k]
                   \/ pc'[k] \notin {"ack", "settle"}
        PROVE  Grows /\ AcksAreEarned /\ MovesAreEarned
    BY <1>1, SameOutcome, HandoutEarned, QuietMoves
  <1>2. CASE UNCHANGED vars
    BY <1>1, <1>2 DEF vars, groupVars, loopVars, outcomeVars
  <1>3. ASSUME NEW m \in Commands, Produce(m) \/ Expire(m)
        PROVE  Grows /\ AcksAreEarned /\ MovesAreEarned
    BY <1>1, <1>3 DEF Produce, Expire, groupVars, loopVars, outcomeVars
  <1>4. ASSUME NEW i \in Ids, GoIdle(i)
        PROVE  Grows /\ AcksAreEarned /\ MovesAreEarned
    BY <1>1, <1>4 DEF GoIdle, groupVars, loopVars, outcomeVars
  <1>5. ASSUME NEW c \in Consumers, Start(c) \/ Stop(c) \/ Crash(c)
        PROVE  Grows /\ AcksAreEarned /\ MovesAreEarned
    <2>1. LoopTypeOK
      BY DEF Typed, TypeOK
    <2>2. UNCHANGED <<last, count, responses, dlqLog, lost>>
      BY <1>5 DEF Start, Stop, Crash, groupVars, outcomeVars
    <2>3. UNCHANGED stream \/ AddEntry(Pill, 0)
      BY <1>5 DEF Start, Stop, Crash
    <2>4. \A k \in Consumers :
              \/ pc'[k] = pc[k] /\ batch'[k] = batch[k]
              \/ pc'[k] \notin {"ack", "settle"}
      BY <1>5, <2>1 DEF Start, Stop, Crash, LoopTypeOK
    <2> QED
      BY <1>1, <2>2, <2>3, <2>4
  <1>6. ASSUME NEW c \in Consumers, Loop(c)
        PROVE  Grows /\ AcksAreEarned /\ MovesAreEarned
    BY <1>6, LoopEarned
  <1>7. ASSUME NEW r \in Replayers,
               List(r) \/ ReplayerCrash(r) \/ \E d \in todo[r] : Letter(r, d)
        PROVE  Grows /\ AcksAreEarned /\ MovesAreEarned
    BY <1>1, <1>7, LetterFrame DEF groupVars, loopVars
  <1> QED
    BY <1>2, <1>3, <1>4, <1>5, <1>6, <1>7 DEF Next

Settled == Typed /\ AckIsEarned /\ AckedIsSettled

LEMMA SettledStep == Settled /\ [Next]_vars => Settled'
  <1> SUFFICES ASSUME Settled, [Next]_vars
               PROVE  Settled'
    OBVIOUS
  <1>1. Typed /\ Typed' /\ Grows /\ AcksAreEarned /\ MovesAreEarned
    BY TypedStep, StepEarned DEF Settled
  <1>2. GroupTypeOK /\ GroupTypeOK' /\ PositionsOK
    BY <1>1 DEF Typed, TypeOK
  <1>3. \A i \in 1..last : i \in Ids /\ i \in 1..Len(stream) /\ Cmd(i)' = Cmd(i)
    BY <1>1, <1>2, IdsFacts DEF Grows, Cmd
  <1>4. \A i \in Ids : (Answered(i) => Answered(i)') /\ (Dead(i) => Dead(i)')
                     /\ (i \in lost => i \in lost')
    BY <1>1 DEF Grows, Answered
  <1>5. ASSUME NEW c \in Consumers, NEW i \in Ids
        PROVE  /\ At(c, i, "ack") => Answered(i)
               /\ At(c, i, "settle") => (Cmd(i) = Pill \/ Dead(i) \/ i \in lost) /\ i \in 1..last
    BY <1>2 DEF Settled, AckIsEarned, PositionsOK, At
  <1>6. AckIsEarned'
    <2>1. ASSUME NEW c \in Consumers, NEW i \in Ids
          PROVE  /\ At(c, i, "ack")' => Answered(i)'
                 /\ At(c, i, "settle")' => Cmd(i)' = Pill \/ Dead(i)' \/ i \in lost'
      BY <1>1, <1>3, <1>4, <1>5 DEF MovesAreEarned
    <2> QED
      BY <2>1 DEF AckIsEarned
  <1>7. AckedIsSettled'
    <2>1. ASSUME NEW i \in 1..Len(stream'), Acked(i)', Cmd(i)' # Pill
          PROVE  Answered(i)' \/ Dead(i)' \/ i \in lost'
      <3>1. i \in Ids
        BY <1>2, ConstantsOK DEF GroupTypeOK, Ids, ConstantsOK
      <3>2. CASE Acked(i)
        <4>1. i \in 1..last /\ i \in 1..Len(stream)
          BY <1>2, <3>1, <3>2, IdsFacts DEF Acked, Ids
        <4> QED
          BY <1>3, <1>4, <2>1, <3>1, <3>2, <4>1 DEF Settled, AckedIsSettled
      <3>3. CASE \E c \in Consumers : At(c, i, "ack") \/ At(c, i, "settle")
        BY <1>3, <1>4, <1>5, <2>1, <3>1, <3>3
      <3> QED
        BY <1>1, <2>1, <3>1, <3>2, <3>3 DEF AcksAreEarned
    <2> QED
      BY <2>1 DEF AckedIsSettled
  <1> QED
    BY <1>1, <1>6, <1>7 DEF Settled

\* Whatever replicas, crashes and Redis errors do, an acknowledged command has
\* been answered, is a dead letter, or is one whose dead-letter append failed
\* (event-consumer.ts processMessages, media-command.worker.ts handleDlq).
THEOREM SettlementCorrect == Spec => []AckedIsSettled
  <1>1. Init => Settled
    <2>1. Init => AckIsEarned /\ AckedIsSettled
      BY DEF Init, AckIsEarned, AckedIsSettled, At
    <2> QED
      BY <2>1, TypedInit DEF Settled
  <1>2. Settled => AckedIsSettled
    BY DEF Settled
  <1> QED
    BY <1>1, <1>2, SettledStep, PTL DEF Spec

-----------------------------------------------------------------------------
(* Dead letters.  A replayer reaches its XDEL only through its XADD, and    *)
(* the copy it added stays on the stream.                                   *)

Replayed == Settled /\ RemovalIsEarned /\ RemovedIsReinjected

LEMMA ReinjectedStays ==
    ASSUME Typed, Typed', Grows, NEW d, Reinjected(d)
    PROVE  Reinjected(d)'
  <1>1. /\ DOMAIN stream = 1..Len(stream) /\ DOMAIN stream' = 1..Len(stream')
        /\ Len(stream) \in Nat /\ Len(stream') \in Nat
    BY DEF Typed, TypeOK, GroupTypeOK
  <1>2. PICK j \in 1..Len(stream) : stream[j].dead = d
    BY <1>1 DEF Reinjected
  <1>3. j \in 1..Len(stream') /\ stream'[j] = stream[j]
    BY <1>1 DEF Grows
  <1> QED
    BY <1>1, <1>2, <1>3 DEF Reinjected

\* Nobody but a replayer at its XDEL takes a letter out, and nobody but a
\* replayer that has just reinjected gets there.
LettersAreEarned ==
    /\ \A d \in DOMAIN dlqLog' : d \notin dlqLive' =>
          \/ d \in DOMAIN dlqLog /\ d \notin dlqLive
          \/ \E r \in Replayers : d \in todo[r] /\ AtLetter(r, d, "xdel")
    /\ \A r \in Replayers : \A d \in todo'[r] : AtLetter(r, d, "xdel")' =>
          \/ d \in todo[r] /\ AtLetter(r, d, "xdel")
          \/ Reinjected(d)'

LEMMA QuietLetters ==
    ASSUME Typed, UNCHANGED <<dlqLog, dlqLive>>,
           \A r \in Replayers :
               \/ todo'[r] = todo[r] /\ rpc'[r] = rpc[r]
               \/ rpc'[r] # "xdel"
    PROVE  LettersAreEarned
  BY DEF LettersAreEarned, AtLetter

LEMMA LoopLetters ==
    ASSUME Typed, NEW c \in Consumers, Loop(c)
    PROVE  LettersAreEarned
  <1>1. CASE \E i \in Ids : (Bury(c, i) \/ BuryFault(c, i)) /\ AddLetter(i)
    <2>1. PICK i \in Ids : (Bury(c, i) \/ BuryFault(c, i)) /\ AddLetter(i)
      BY <1>1
    <2>2. /\ dlqLog' = Append(dlqLog, i) /\ dlqLive' = dlqLive \cup {Len(dlqLog) + 1}
          /\ UNCHANGED <<todo, rpc>>
      BY <2>1 DEF Bury, BuryFault, AddLetter, replayerVars
    <2>3. dlqLog \in Seq(Ids) /\ Len(dlqLog) \in Nat
      BY DEF Typed, TypeOK, OutcomeTypeOK
    <2>4. DOMAIN dlqLog = 1..Len(dlqLog) /\ DOMAIN dlqLog' = 1..(Len(dlqLog) + 1)
      BY <2>2, <2>3, AppendFacts
    <2> QED
      BY <2>2, <2>3, <2>4 DEF LettersAreEarned, AtLetter
  <1>2. CASE ~\E i \in Ids : (Bury(c, i) \/ BuryFault(c, i)) /\ AddLetter(i)
    <2>0. ~\E i \in Ids : Bury(c, i)
      BY <1>2 DEF Bury
    <2>1. UNCHANGED <<dlqLog, dlqLive, todo, rpc>>
      BY <1>2, <2>0 DEF Loop, Reclaim, Read, ReclaimFault, ReadFault, Message, TakePill, TakeMalformed,
                  TakeCommand, Reject, Execute, HandlerError, Publish, PublishFault, AckHandled,
                  AckHandledFault, Respond, BuryFault, Settle, SettleFault, outcomeVars, replayerVars
    <2> QED
      BY <2>1, QuietLetters
  <1> QED
    BY <1>1, <1>2

LEMMA ReplayerLetters ==
    ASSUME Typed, Typed', NEW r \in Replayers,
           List(r) \/ ReplayerCrash(r) \/ \E d \in todo[r] : Letter(r, d)
    PROVE  LettersAreEarned
  <1>1. ReplayerTypeOK /\ GroupTypeOK /\ OutcomeTypeOK
    BY DEF Typed, TypeOK
  <1>2. CASE List(r) \/ ReplayerCrash(r)
    <2>1. UNCHANGED <<dlqLog, dlqLive>>
      BY <1>2 DEF List, ReplayerCrash, outcomeVars
    <2>2. \A q \in Replayers : (todo'[q] = todo[q] /\ rpc'[q] = rpc[q]) \/ rpc'[q] # "xdel"
      BY <1>1, <1>2 DEF List, ReplayerCrash, ReplayerTypeOK
    <2> QED
      BY <2>1, <2>2, QuietLetters
  <1>3. ASSUME NEW d \in todo[r],
               SkipLetter(r, d) \/ CheckLetter(r, d) \/ ReinjectFault(r, d) \/ RemoveLetterFault(r, d)
        PROVE  LettersAreEarned
    <2>1. UNCHANGED <<dlqLog, dlqLive>>
      BY <1>3 DEF SkipLetter, CheckLetter, ReinjectFault, RemoveLetterFault, outcomeVars
    <2>2. \A q \in Replayers : (todo'[q] = todo[q] /\ rpc'[q] = rpc[q]) \/ rpc'[q] # "xdel"
      BY <1>1, <1>3 DEF SkipLetter, CheckLetter, ReinjectFault, RemoveLetterFault, NextLetter,
                        ReplayerTypeOK
    <2> QED
      BY <2>1, <2>2, QuietLetters
  <1>4. ASSUME NEW d \in todo[r], RemoveLetter(r, d)
        PROVE  LettersAreEarned
    <2>1. /\ UNCHANGED dlqLog /\ dlqLive' = dlqLive \ {d}
          /\ AtLetter(r, d, "xdel")
      BY <1>4 DEF RemoveLetter
    <2>2. \A q \in Replayers : (todo'[q] = todo[q] /\ rpc'[q] = rpc[q]) \/ rpc'[q] # "xdel"
      BY <1>1, <1>4 DEF RemoveLetter, NextLetter, ReplayerTypeOK
    <2> QED
      BY <2>1, <2>2 DEF LettersAreEarned, AtLetter
  <1>5. ASSUME NEW d \in todo[r], Reinject(r, d)
        PROVE  LettersAreEarned
    <2>1. /\ UNCHANGED <<dlqLog, dlqLive, todo>> /\ AtLetter(r, d, "xadd")
          /\ AddEntry(Cmd(dlqLog[d]), d)
          /\ \A q \in Replayers : q # r => rpc'[q] = rpc[q]
      BY <1>1, <1>5 DEF Reinject, outcomeVars, ReplayerTypeOK
    <2>2. d \in DOMAIN dlqLog /\ d \in Nat /\ Cmd(dlqLog[d]) \in Commands \cup {Pill}
      BY <1>1, CommandOf DEF ReplayerTypeOK, OutcomeTypeOK
    <2>3. Reinjected(d)'
      <3>1. /\ stream' \in Seq(Items) /\ Len(stream') = Len(stream) + 1
            /\ stream'[Len(stream')] = [cmd |-> Cmd(dlqLog[d]), dead |-> d]
        BY <1>1, <2>1, <2>2, AddEntrySteps
      <3>2. Len(stream) \in Nat
        BY <1>1, IdsFacts
      <3> QED
        BY <3>1, <3>2 DEF Reinjected
    <2>4. ASSUME NEW q \in Replayers, NEW e \in todo'[q], AtLetter(q, e, "xdel")'
          PROVE  (e \in todo[q] /\ AtLetter(q, e, "xdel")) \/ Reinjected(e)'
      <3>1. CASE q # r
        BY <2>1, <2>4, <3>1 DEF AtLetter
      <3>2. CASE q = r
        <4>1. \A x, y \in Nat : x <= y /\ y <= x => x = y
          OBVIOUS
        <4>2. e \in todo[r] /\ e \in Nat /\ d \in Nat
          BY <1>1, <2>1, <2>4, <3>2 DEF ReplayerTypeOK
        <4>3. d <= e /\ e <= d
          BY <2>1, <2>4, <3>2, <4>2 DEF AtLetter
        <4> QED
          BY <2>3, <4>1, <4>2, <4>3
      <3> QED
        BY <3>1, <3>2
    <2> QED
      BY <2>1, <2>4 DEF LettersAreEarned
  <1> QED
    BY <1>2, <1>3, <1>4, <1>5 DEF Letter

LEMMA StepLetters ==
    ASSUME Typed, Typed', [Next]_vars
    PROVE  LettersAreEarned
  <1>1. CASE UNCHANGED vars
    BY <1>1, QuietLetters DEF vars, outcomeVars, replayerVars
  <1>2. ASSUME \/ \E m \in Commands : Produce(m) \/ Expire(m)
               \/ \E i \in Ids : GoIdle(i)
               \/ \E c \in Consumers : Start(c) \/ Stop(c) \/ Crash(c)
        PROVE  LettersAreEarned
    BY <1>2, QuietLetters DEF Produce, Expire, GoIdle, Start, Stop, Crash, outcomeVars, replayerVars
  <1> QED
    BY <1>1, <1>2, LoopLetters, ReplayerLetters DEF Next

LEMMA ReplayedStep == Replayed /\ [Next]_vars => Replayed'
  <1> SUFFICES ASSUME Replayed, [Next]_vars
               PROVE  Replayed'
    OBVIOUS
  <1>1. Typed /\ Typed' /\ Grows /\ Settled'
    BY SettledStep, StepEarned DEF Replayed, Settled
  <1>2. LettersAreEarned
    BY <1>1, StepLetters
  <1>3. \A r \in Replayers : \A d \in todo[r] : AtLetter(r, d, "xdel") => Reinjected(d)'
    BY <1>1, ReinjectedStays DEF Replayed, RemovalIsEarned
  <1>4. \A d \in DOMAIN dlqLog : d \notin dlqLive => Reinjected(d)'
    BY <1>1, ReinjectedStays DEF Replayed, RemovedIsReinjected
  <1>5. RemovalIsEarned'
    BY <1>2, <1>3 DEF LettersAreEarned, RemovalIsEarned
  <1>6. RemovedIsReinjected'
    BY <1>2, <1>3, <1>4 DEF LettersAreEarned, RemovedIsReinjected
  <1> QED
    BY <1>1, <1>5, <1>6 DEF Replayed

\* Any number of overlapping replayers, dying or failing anywhere, take a
\* letter out of the dead-letter stream only after a copy of it is on the
\* command stream (media-command-dlq.ts replayMediaCommandDlqEntry).
THEOREM ReplayCorrect == Spec => []RemovedIsReinjected
  <1>1. Init => Replayed
    <2>1. Init => Settled
      BY TypedInit DEF Settled, Init, AckIsEarned, AckedIsSettled, At
    <2>2. Init => RemovalIsEarned /\ RemovedIsReinjected
      BY DEF Init, RemovalIsEarned, RemovedIsReinjected
    <2> QED
      BY <2>1, <2>2 DEF Replayed
  <1>2. Replayed => RemovedIsReinjected
    BY DEF Replayed
  <1> QED
    BY <1>1, <1>2, ReplayedStep, PTL DEF Spec

-----------------------------------------------------------------------------
(* What a replica works on is a command.  The pill goes from its start      *)
(* straight to its acknowledgement, so nothing is ever reported about it.   *)

Working == {"handle", "publish", "ack", "respond", "bury"}

CommandsInHand ==
    \A c \in Consumers, i \in Ids :
        \A w \in Working : At(c, i, w) => Cmd(i) # Pill

\* Where an entry in hand has come from.
HandsAreCommands ==
    \A c \in Consumers, i \in Ids : \A w \in Working : At(c, i, w)' =>
        \/ \E v \in Working : At(c, i, v)
        \/ At(c, i, "take") /\ Cmd(i) # Pill

LEMMA QuietHands ==
    ASSUME \A k \in Consumers :
               \/ pc'[k] \notin Working
               \/ batch'[k] = batch[k] /\ (pc'[k] = pc[k] \/ pc[k] \in Working)
    PROVE  HandsAreCommands
  <1> SUFFICES ASSUME NEW c \in Consumers, NEW i \in Ids, NEW w \in Working, At(c, i, w)'
               PROVE  \E v \in Working : At(c, i, v)
    BY DEF HandsAreCommands
  <1>1. pc'[c] = w /\ i \in batch'[c] /\ \A j \in batch'[c] : i <= j
    BY DEF At
  <1>2. pc[c] \in Working /\ At(c, i, pc[c])
    BY <1>1 DEF At
  <1> QED
    BY <1>2

LEMMA MessageHands ==
    ASSUME Typed, NEW c \in Consumers, NEW i \in Ids, Message(c, i)
    PROVE  HandsAreCommands
  <1>1. LoopTypeOK
    BY DEF Typed, TypeOK
  <1>2. CASE TakeMalformed(c, i) \/ TakeCommand(c, i)
    <2>1. /\ At(c, i, "take") /\ Cmd(i) # Pill
          /\ batch' = batch /\ \A k \in Consumers : k # c => pc'[k] = pc[k]
      BY <1>1, <1>2, ConstantsOK DEF TakeMalformed, TakeCommand, Goto, LoopTypeOK, Malformed, ConstantsOK
    <2>2. ASSUME NEW k \in Consumers, NEW j \in Ids, NEW w \in Working, At(k, j, w)'
          PROVE  \/ \E v \in Working : At(k, j, v)
                 \/ At(k, j, "take") /\ Cmd(j) # Pill
      <3>1. CASE k # c
        BY <2>1, <2>2, <3>1 DEF At
      <3>2. CASE k = c
        <4>1. At(c, j, "take")
          BY <2>1, <2>2, <3>2 DEF At
        <4> QED
          BY <2>1, <3>2, <4>1, HeadIsUnique
      <3> QED
        BY <3>1, <3>2
    <2> QED
      BY <2>2 DEF HandsAreCommands
  <1>3. CASE ~(TakeMalformed(c, i) \/ TakeCommand(c, i))
    <2>1. \/ Continue(c, i) \/ Abandon(c)
          \/ Goto(c, "settle")
          \/ pc[c] \in Working /\ (RetryOrBury(c, i) \/ \E w \in Working \cup {"settle"} : Goto(c, w))
      BY <1>3 DEF Message, TakePill, Reject, Execute, HandlerError, Publish, PublishFault, AckHandled,
                  AckHandledFault, Respond, Bury, BuryFault, Settle, SettleFault, At, Working
    <2>2. \A k \in Consumers :
              \/ pc'[k] \notin Working
              \/ batch'[k] = batch[k] /\ (pc'[k] = pc[k] \/ pc[k] \in Working)
      BY <1>1, <2>1 DEF Continue, Abandon, Goto, RetryOrBury, EndOfBatch, Top, LoopTypeOK, Working
    <2> QED
      BY <2>2, QuietHands
  <1> QED
    BY <1>2, <1>3

LEMMA StepHands ==
    ASSUME Typed, [Next]_vars
    PROVE  HandsAreCommands
  <1>1. LoopTypeOK
    BY DEF Typed, TypeOK
  <1>2. CASE UNCHANGED vars
    BY <1>2, QuietHands DEF vars, loopVars
  <1>3. ASSUME NEW m \in Commands, Produce(m) \/ Expire(m)
        PROVE  HandsAreCommands
    BY <1>3, QuietHands DEF Produce, Expire, loopVars
  <1>4. ASSUME NEW i \in Ids, GoIdle(i)
        PROVE  HandsAreCommands
    BY <1>4, QuietHands DEF GoIdle, loopVars
  <1>5. ASSUME NEW c \in Consumers,
               \/ Start(c) \/ Stop(c) \/ Crash(c)
               \/ Reclaim(c) \/ Read(c) \/ ReclaimFault(c) \/ ReadFault(c)
        PROVE  HandsAreCommands
    <2>1. \A k \in Consumers :
              \/ pc'[k] \notin Working
              \/ batch'[k] = batch[k] /\ pc'[k] = pc[k]
      BY <1>1, <1>5 DEF Start, Stop, Crash, Reclaim, Read, ReclaimFault, ReadFault, Top, LoopTypeOK, Working
    <2> QED
      BY <2>1, QuietHands
  <1>6. ASSUME NEW r \in Replayers,
               List(r) \/ ReplayerCrash(r) \/ \E d \in todo[r] : Letter(r, d)
        PROVE  HandsAreCommands
    BY <1>6, LetterFrame, QuietHands DEF loopVars
  <1> QED
    BY <1>2, <1>3, <1>4, <1>5, <1>6, MessageHands DEF Next, Loop

Delivered == Settled /\ CommandsInHand

LEMMA DeliveredStep == Delivered /\ [Next]_vars => Delivered'
  <1> SUFFICES ASSUME Delivered, [Next]_vars
               PROVE  Delivered'
    OBVIOUS
  <1>1. Settled' /\ Typed /\ Typed' /\ Grows /\ HandsAreCommands
    BY SettledStep, StepEarned, StepHands DEF Delivered, Settled
  <1>2. ASSUME NEW c \in Consumers, NEW i \in Ids, NEW w \in Working, At(c, i, w)'
        PROVE  Cmd(i)' # Pill
    <2>1. /\ Cmd(i) # Pill
          /\ i \in batch[c]
      BY <1>1, <1>2 DEF HandsAreCommands, Delivered, CommandsInHand, At
    <2>2. i \in 1..Len(stream)
      BY <1>1, <2>1, IdsFacts DEF Typed, TypeOK, PositionsOK
    <2> QED
      BY <1>1, <2>1, <2>2 DEF Grows, Cmd
  <1>3. CommandsInHand'
    BY <1>2 DEF CommandsInHand
  <1> QED
    BY <1>1, <1>3 DEF Delivered

-----------------------------------------------------------------------------
(* The steps of the promise.                                                *)

SameAcks == \A i \in Ids : Acked(i)' <=> Acked(i)

\* Neither the streams nor the acknowledgements change.
LEMMA Stutters ==
    ASSUME UNCHANGED <<stream, responses, dlqLog, lost>>, SameAcks
    PROVE  UNCHANGED Delivery!vars
  <1>1. \A i \in Ids : (Carries(i)' <=> Carries(i)) /\ EntryOutcome(i)' = EntryOutcome(i)
    BY DEF Carries, Cmd, EntryOutcome, Answered, Dead
  <1> QED
    BY <1>1 DEF Delivery!vars, SameAcks

\* An entry added to the stream is accepted, unless it is the pill.
LEMMA Accepts ==
    ASSUME Typed, NEW m \in Commands \cup {Pill}, NEW d \in Nat, AddEntry(m, d),
           UNCHANGED <<last, count, responses, dlqLog, lost>>
    PROVE  [Delivery!Next]_(Delivery!vars)
  <1>1. GroupTypeOK /\ last \in Nat /\ Len(stream) \in Nat /\ last <= Len(stream)
    BY IdsFacts DEF Typed, TypeOK
  <1>2. PICK n \in Nat : n = Len(stream) + 1
    BY <1>1
  <1>3. /\ Len(stream') = n /\ n \in Ids
        /\ \A i \in 1..Len(stream) : stream'[i] = stream[i]
        /\ stream'[n].cmd = m
    <2>1. /\ Len(stream') = n /\ n <= MaxEntries
          /\ \A i \in 1..Len(stream) : stream'[i] = stream[i]
          /\ stream'[n] = [cmd |-> m, dead |-> d]
      BY <1>1, <1>2, AddEntrySteps
    <2> QED
      BY <1>1, <1>2, <2>1, ConstantsOK DEF Ids, ConstantsOK
  <1>4. \A i \in Ids : i # n => (Carries(i)' <=> Carries(i))
    BY <1>1, <1>2, <1>3 DEF Carries, Cmd, Ids
  <1>5. ~Carries(n) /\ (Carries(n)' <=> m # Pill) /\ ~Acked(n)'
    BY <1>1, <1>2, <1>3 DEF Carries, Cmd, Acked
  <1>6. \A i \in Ids : (Acked(i)' <=> Acked(i)) /\ EntryOutcome(i)' = EntryOutcome(i)
    BY DEF Acked, EntryOutcome, Answered, Dead
  <1>7. /\ [i \in Ids |-> EntryOutcome(i)]' = [i \in Ids |-> EntryOutcome(i)]
        /\ {i \in Ids : Carries(i) /\ Acked(i)}' = {i \in Ids : Carries(i) /\ Acked(i)}
    BY <1>4, <1>5, <1>6
  <1>8. CASE m = Pill
    <2>1. {i \in Ids : Carries(i)}' = {i \in Ids : Carries(i)}
      BY <1>4, <1>5, <1>8
    <2> QED
      BY <1>7, <2>1 DEF Delivery!vars
  <1>9. CASE m # Pill
    <2>1. {i \in Ids : Carries(i)}' = {i \in Ids : Carries(i)} \cup {n}
      BY <1>3, <1>4, <1>5, <1>9
    <2>2. n \notin {i \in Ids : Carries(i)}
      BY <1>5
    <2>3. Delivery!Accept(n)
      BY <1>7, <2>1, <2>2 DEF Delivery!Accept
    <2> QED
      BY <1>3, <2>3 DEF Delivery!Next
  <1> QED
    BY <1>8, <1>9

\* An answer, a dead letter and a logged loss are reports about the command.
LEMMA Reports ==
    ASSUME NEW i \in Ids, Carries(i),
           UNCHANGED <<stream, last, count>>,
           \A j \in Ids : j # i => EntryOutcome(j)' = EntryOutcome(j),
           EntryOutcome(i) \subseteq EntryOutcome(i)'
    PROVE  [Delivery!Next]_(Delivery!vars)
  <1> DEFINE out == [j \in Ids |-> EntryOutcome(j)]
             what == EntryOutcome(i)'
  <1>1. what \in SUBSET Delivery!Outcomes
    BY DEF EntryOutcome, Delivery!Outcomes
  <1>2. EntryOutcome(i) \cup what = what
    OBVIOUS
  <1>3. [j \in Ids |-> EntryOutcome(j)]' = [out EXCEPT ![i] = @ \cup what]
    BY <1>2
  <1>4. i \in {j \in Ids : Carries(j)}
    OBVIOUS
  <1>5. /\ {j \in Ids : Carries(j)}' = {j \in Ids : Carries(j)}
        /\ {j \in Ids : Carries(j) /\ Acked(j)}' = {j \in Ids : Carries(j) /\ Acked(j)}
    BY DEF Carries, Cmd, Acked
  <1>6. Delivery!Report(i, what)
    BY <1>3, <1>4, <1>5 DEF Delivery!Report
  <1> QED
    BY <1>1, <1>6 DEF Delivery!Next

\* An acknowledgement closes its command, once, after something has come of it.
LEMMA Closes ==
    ASSUME Typed, NEW i \in Ids, Ack(i), i <= last,
           UNCHANGED <<stream, responses, dlqLog, lost>>,
           Cmd(i) # Pill => EntryOutcome(i) # {}
    PROVE  [Delivery!Next]_(Delivery!vars)
  <1>1. GroupTypeOK /\ last \in Nat /\ Len(stream) \in Nat /\ last <= Len(stream) /\ i \in Nat
    BY IdsFacts DEF Typed, TypeOK, Ids
  <1>2. \A j \in Ids : Acked(j)' <=> j = i \/ Acked(j)
    BY <1>1, AckSteps DEF Acked
  <1>3. \A j \in Ids : (Carries(j)' <=> Carries(j)) /\ EntryOutcome(j)' = EntryOutcome(j)
    BY DEF Carries, Cmd, EntryOutcome, Answered, Dead
  <1>4. CASE ~Carries(i) \/ Acked(i)
    BY <1>2, <1>3, <1>4 DEF Delivery!vars
  <1>5. CASE Carries(i) /\ ~Acked(i)
    <2>1. /\ i \in {j \in Ids : Carries(j)} \ {j \in Ids : Carries(j) /\ Acked(j)}
          /\ [j \in Ids |-> EntryOutcome(j)][i] # {}
      BY <1>5 DEF Carries
    <2>2. /\ {j \in Ids : Carries(j) /\ Acked(j)}' = {j \in Ids : Carries(j) /\ Acked(j)} \cup {i}
          /\ {j \in Ids : Carries(j)}' = {j \in Ids : Carries(j)}
          /\ [j \in Ids |-> EntryOutcome(j)]' = [j \in Ids |-> EntryOutcome(j)]
      BY <1>2, <1>3, <1>5
    <2>3. Delivery!Close(i)
      BY <2>1, <2>2 DEF Delivery!Close
    <2> QED
      BY <2>3 DEF Delivery!Next
  <1> QED
    BY <1>4, <1>5

\* Entries handed out, for the first time or again, were not closed and are not.
LEMMA HandoutAcks ==
    ASSUME Typed,
           \/ Deliver(Oldest(idle)) /\ last' = last
           \/ Deliver(Fresh) /\ last' = Newest
    PROVE  SameAcks
  <1>1. GroupTypeOK /\ PositionsOK /\ last \in Nat
    BY IdsFacts DEF Typed, TypeOK
  <1>2. CASE Deliver(Oldest(idle)) /\ last' = last
    <2>1. Oldest(idle) \in SUBSET Ids /\ Oldest(idle) \subseteq idle
      BY <1>1, OldestSubset DEF GroupTypeOK
    <2>2. \A i \in Ids : count'[i] = IF i \in Oldest(idle) THEN count[i] + 1 ELSE count[i]
      BY <1>1, <1>2, <2>1, DeliverSteps
    <2>3. \A i \in Oldest(idle) : count[i] > 0
      BY <1>1, <2>1 DEF PositionsOK
    <2> QED
      BY <1>1, <1>2, <2>2, <2>3 DEF SameAcks, Acked, GroupTypeOK
  <1>3. CASE Deliver(Fresh) /\ last' = Newest
    <2>1. /\ Fresh \in SUBSET Ids /\ last <= Newest /\ Newest \in Nat
          /\ \A i \in Ids : count'[i] = IF i \in Fresh THEN count[i] + 1 ELSE count[i]
      BY <1>1, <1>3, IdsFacts, FreshFacts, DeliverSteps
    <2>2. \A i \in Ids : i \in Fresh <=> i > last /\ i <= last'
      BY <1>1, <1>3, <2>1 DEF Fresh, Ids
    <2> QED
      BY <1>1, <1>3, <2>1, <2>2 DEF SameAcks, Acked, GroupTypeOK, Ids
  <1> QED
    BY <1>2, <1>3

-----------------------------------------------------------------------------

\* The entry at the head of a batch, past its start, carries a command.
LEMMA InHandCarries ==
    ASSUME Delivered, NEW c \in Consumers, NEW i \in Ids, NEW w \in Working, At(c, i, w)
    PROVE  Carries(i)
  <1>1. i \in batch[c] /\ Cmd(i) # Pill
    BY DEF Delivered, CommandsInHand, At
  <1>2. i \in 1..Len(stream)
    BY <1>1, IdsFacts DEF Delivered, Settled, Typed, TypeOK, PositionsOK
  <1> QED
    BY <1>1, <1>2, IdsFacts DEF Carries

LEMMA MessageDelivers ==
    ASSUME Delivered, NEW c \in Consumers, NEW i \in Ids, Message(c, i)
    PROVE  [Delivery!Next]_(Delivery!vars)
  <1>1. Typed /\ GroupTypeOK /\ OutcomeTypeOK /\ PositionsOK
    BY DEF Delivered, Settled, Typed, TypeOK
  <1>2. CASE TakePill(c, i) \/ TakeMalformed(c, i) \/ TakeCommand(c, i)
               \/ Reject(c, i) \/ Execute(c, i) \/ HandlerError(c, i)
    <2>1. UNCHANGED <<stream, last, count, responses, dlqLog, lost>>
      BY <1>2 DEF TakePill, TakeMalformed, TakeCommand, Reject, Execute, HandlerError, groupVars, outcomeVars
    <2> QED
      BY <2>1, Stutters DEF SameAcks, Acked
  <1>3. CASE Publish(c, i) \/ PublishFault(c, i) \/ Respond(c, i)
    <2>1. /\ UNCHANGED <<stream, last, count, dlqLog, lost>>
          /\ UNCHANGED responses \/ \E k \in {"ok", "failed"} : Answer(i, k)
          /\ \E w \in Working : At(c, i, w)
      BY <1>3 DEF Publish, PublishFault, Respond, groupVars, Working
    <2>2. /\ \A j \in Ids : Dead(j)' <=> Dead(j)
          /\ \A j \in Ids : Answered(j) => Answered(j)'
          /\ \A j \in Ids : j # i => (Answered(j)' <=> Answered(j))
      BY <2>1 DEF Dead, Answered, Answer
    <2>3. /\ \A j \in Ids : j # i => EntryOutcome(j)' = EntryOutcome(j)
          /\ EntryOutcome(i) \subseteq EntryOutcome(i)'
      BY <2>1, <2>2 DEF EntryOutcome
    <2> QED
      BY <2>1, <2>3, InHandCarries, Reports
  <1>4. CASE Bury(c, i) \/ BuryFault(c, i)
    <2>1. /\ UNCHANGED <<stream, last, count, responses>>
          /\ UNCHANGED dlqLog \/ AddLetter(i)
          /\ UNCHANGED lost \/ lost' = lost \cup {i}
          /\ At(c, i, "bury")
      BY <1>4 DEF Bury, BuryFault, groupVars
    <2>2. /\ \A j \in Ids : Dead(j) => Dead(j)'
          /\ \A j \in Ids : j # i => (Dead(j)' <=> Dead(j))
      <3>1. CASE UNCHANGED dlqLog
        BY <3>1 DEF Dead
      <3>2. CASE AddLetter(i)
        <4>1. dlqLog \in Seq(Ids) /\ Len(dlqLog) \in Nat
          BY <1>1 DEF OutcomeTypeOK
        <4>2. /\ DOMAIN dlqLog = 1..Len(dlqLog) /\ DOMAIN dlqLog' = 1..(Len(dlqLog) + 1)
              /\ dlqLog'[Len(dlqLog) + 1] = i
              /\ \A d \in 1..Len(dlqLog) : dlqLog'[d] = dlqLog[d]
          BY <3>2, <4>1, AppendFacts DEF AddLetter
        <4> QED
          BY <4>1, <4>2 DEF Dead
      <3> QED
        BY <2>1, <3>1, <3>2
    <2>3. \A j \in Ids : Answered(j)' <=> Answered(j)
      BY <2>1 DEF Answered
    <2>4. /\ \A j \in Ids : j # i => EntryOutcome(j)' = EntryOutcome(j)
          /\ EntryOutcome(i) \subseteq EntryOutcome(i)'
      BY <2>1, <2>2, <2>3 DEF EntryOutcome
    <2>5. "bury" \in Working
      BY DEF Working
    <2> QED
      BY <2>1, <2>4, <2>5, InHandCarries, Reports
  <1>5. CASE AckHandled(c, i) \/ AckHandledFault(c, i) \/ Settle(c, i) \/ SettleFault(c, i)
    <2>1. /\ UNCHANGED <<stream, responses, dlqLog, lost>>
          /\ UNCHANGED groupVars \/ Ack(i)
          /\ At(c, i, "ack") \/ At(c, i, "settle")
      BY <1>5 DEF AckHandled, AckHandledFault, Settle, SettleFault, outcomeVars
    <2>2. CASE UNCHANGED groupVars
      BY <2>1, <2>2, Stutters DEF SameAcks, Acked, groupVars
    <2>3. CASE Ack(i)
      <3>1. i \in batch[c] /\ i <= last
        <4>1. i \in batch[c]
          BY <2>1 DEF At
        <4> QED
          BY <1>1, <4>1 DEF PositionsOK
      <3>2. Cmd(i) # Pill => Answered(i) \/ Dead(i) \/ i \in lost
        BY <2>1 DEF Delivered, Settled, AckIsEarned
      <3>3. Cmd(i) # Pill => EntryOutcome(i) # {}
        BY <3>2 DEF EntryOutcome
      <3> QED
        BY <1>1, <2>1, <2>3, <3>1, <3>3, Closes
    <2> QED
      BY <2>1, <2>2, <2>3
  <1> QED
    BY <1>2, <1>3, <1>4, <1>5 DEF Message

LEMMA StepDelivers ==
    ASSUME Delivered, [Next]_vars
    PROVE  [Delivery!Next]_(Delivery!vars)
  <1>1. Typed
    BY DEF Delivered, Settled
  <1>2. ASSUME UNCHANGED <<last, count, responses, dlqLog, lost>>,
               \/ UNCHANGED stream
               \/ \E m \in Commands \cup {Pill}, d \in Nat : AddEntry(m, d)
        PROVE  [Delivery!Next]_(Delivery!vars)
    <2>1. CASE UNCHANGED stream
      BY <1>2, <2>1, Stutters DEF SameAcks, Acked
    <2>2. CASE \E m \in Commands \cup {Pill}, d \in Nat : AddEntry(m, d)
      BY <1>1, <1>2, <2>2, Accepts
    <2> QED
      BY <1>2, <2>1, <2>2
  <1>3. CASE UNCHANGED vars
    BY <1>2, <1>3 DEF vars, groupVars, outcomeVars
  <1>4. ASSUME NEW m \in Commands, Produce(m) \/ Expire(m)
        PROVE  [Delivery!Next]_(Delivery!vars)
    BY <1>2, <1>4 DEF Produce, Expire, groupVars, outcomeVars
  <1>5. ASSUME NEW i \in Ids, GoIdle(i)
        PROVE  [Delivery!Next]_(Delivery!vars)
    BY <1>2, <1>5 DEF GoIdle, outcomeVars
  <1>6. ASSUME NEW c \in Consumers, Start(c) \/ Stop(c) \/ Crash(c)
        PROVE  [Delivery!Next]_(Delivery!vars)
    <2>1. /\ UNCHANGED <<last, count, responses, dlqLog, lost>>
          /\ UNCHANGED stream \/ AddEntry(Pill, 0)
      BY <1>6 DEF Start, Stop, Crash, groupVars, outcomeVars
    <2> QED
      BY <1>2, <2>1
  <1>7. ASSUME NEW c \in Consumers, Reclaim(c) \/ Read(c) \/ ReclaimFault(c) \/ ReadFault(c)
        PROVE  [Delivery!Next]_(Delivery!vars)
    <2>1. /\ UNCHANGED <<stream, responses, dlqLog, lost>>
          /\ \/ UNCHANGED <<last, count>>
             \/ Deliver(Oldest(idle)) /\ last' = last
             \/ Deliver(Fresh) /\ last' = Newest
      BY <1>7 DEF Reclaim, Read, ReclaimFault, ReadFault, outcomeVars, groupVars
    <2>2. SameAcks
      BY <1>1, <2>1, HandoutAcks DEF SameAcks, Acked
    <2> QED
      BY <2>1, <2>2, Stutters
  <1>8. ASSUME NEW r \in Replayers,
               List(r) \/ ReplayerCrash(r) \/ \E d \in todo[r] : Letter(r, d)
        PROVE  [Delivery!Next]_(Delivery!vars)
    BY <1>1, <1>2, <1>8, LetterFrame DEF groupVars
  <1> QED
    BY <1>3, <1>4, <1>5, <1>6, <1>7, <1>8, MessageDelivers DEF Next, Loop

\* The channel keeps its promise to crm-collab: whatever replicas, replayers,
\* crashes and Redis errors do, a command is closed only after something has
\* come of it, what has come of it is never taken back, and it stays closed
\* (event-consumer.ts, media-command-dlq.ts).
THEOREM DeliveryIsImplemented == Spec => ImplementsDelivery
  <1>1. Init => Delivered
    <2>1. Init => Settled
      BY TypedInit DEF Settled, Init, AckIsEarned, AckedIsSettled, At
    <2>2. Init => CommandsInHand
      BY DEF Init, CommandsInHand, At, Working
    <2> QED
      BY <2>1, <2>2 DEF Delivered
  <1>2. Init => Delivery!Init
    <2> SUFFICES ASSUME Init
                 PROVE  Delivery!Init
      OBVIOUS
    <2>1. \A i \in Ids : ~Carries(i) /\ EntryOutcome(i) = {}
      BY ConstantsOK DEF Init, Carries, EntryOutcome, Answered, Dead, Ids, ConstantsOK
    <2> QED
      BY <2>1 DEF Delivery!Init
  <1>3. Delivered /\ [Next]_vars => [Delivery!Next]_(Delivery!vars)
    BY StepDelivers
  <1> QED
    BY <1>1, <1>2, <1>3, DeliveredStep, PTL DEF Spec, ImplementsDelivery, Delivery!Spec
-----------------------------------------------------------------------------
(* Redelivery ends.  A replica that holds an entry settles it, unless it has *)
(* read a delivery count below MaxRetries, dies or loses a Redis call.  So   *)
(* the deliveries from the MaxRetries-th on are accounted for: by a replica  *)
(* that still holds the entry and will settle it, or by a death or a fault.  *)

MayRetry(c, i) ==
    /\ pc[c] \in {"handle", "publish", "ack"}
    /\ i \in batch[c] /\ \A j \in batch[c] : i <= j
    /\ seen[c] < MaxRetries

Settlers(i) == {c \in Consumers : i \in batch[c] /\ ~MayRetry(c, i)}

Accounted(i) ==
    count[i] > 0 => count[i] <= MaxRetries - 1 + Cardinality(Settlers(i)) + crashes + faults

EmptyHanded == \A c \in Consumers : pc[c] \in {"stopped", "reclaim", "read"} => batch[c] = {}

Bounded == Typed /\ EmptyHanded /\ \A i \in Ids : Accounted(i)

\* A death or a Redis error of this step.
Paid == (crashes' = crashes + 1 /\ faults' = faults) \/ (crashes' = crashes /\ faults' = faults + 1)
Free == UNCHANGED <<crashes, faults>>

\* What a step may do to the deliveries of an entry.
Pays(i) ==
    \/ count'[i] = 0
    \/ count'[i] = count[i] /\ Settlers(i) \subseteq Settlers(i)'
    \/ count'[i] = count[i] /\ count[i] < MaxRetries
    \/ count'[i] = count[i] /\ Paid /\ \E c \in Consumers : Settlers(i) \ {c} \subseteq Settlers(i)'
    \/ count'[i] = count[i] + 1 /\ Paid /\ Settlers(i) \subseteq Settlers(i)'
    \/ /\ count'[i] = count[i] + 1
       /\ \E c \in Consumers \ Settlers(i) : Settlers(i) \cup {c} \subseteq Settlers(i)'

LEMMA SettlersAreCounted ==
    /\ \A S \in SUBSET Consumers : IsFiniteSet(S) /\ Cardinality(S) \in Nat
    /\ \A S, T \in SUBSET Consumers : S \subseteq T => Cardinality(S) <= Cardinality(T)
    /\ \A S, T \in SUBSET Consumers, c \in Consumers :
           S \ {c} \subseteq T => Cardinality(S) <= Cardinality(T) + 1
    /\ \A S, T \in SUBSET Consumers : \A c \in Consumers \ S :
           S \cup {c} \subseteq T => Cardinality(S) + 1 <= Cardinality(T)
  <1>1. \A S \in SUBSET Consumers : IsFiniteSet(S) /\ Cardinality(S) \in Nat
    BY ConstantsOK, FS_Subset, FS_CardinalityType DEF ConstantsOK
  <1>2. \A S, T \in SUBSET Consumers : S \subseteq T => Cardinality(S) <= Cardinality(T)
    BY <1>1, FS_Subset
  <1>3. ASSUME NEW S \in SUBSET Consumers, NEW T \in SUBSET Consumers, NEW c \in Consumers,
               S \ {c} \subseteq T
        PROVE  Cardinality(S) <= Cardinality(T) + 1
    <2>1. Cardinality(S \ {c}) <= Cardinality(T) /\ S \ {c} \in SUBSET Consumers
      BY <1>2, <1>3
    <2>2. Cardinality(S \ {c}) = IF c \in S THEN Cardinality(S) - 1 ELSE Cardinality(S)
      BY <1>1, FS_RemoveElement
    <2> QED
      BY <1>1, <2>1, <2>2
  <1>4. ASSUME NEW S \in SUBSET Consumers, NEW T \in SUBSET Consumers, NEW c \in Consumers \ S,
               S \cup {c} \subseteq T
        PROVE  Cardinality(S) + 1 <= Cardinality(T)
    <2>1. Cardinality(S \cup {c}) = Cardinality(S) + 1
      BY <1>1, FS_AddElement
    <2>2. Cardinality(S \cup {c}) <= Cardinality(T)
      BY <1>2, <1>4
    <2> QED
      BY <2>1, <2>2
  <1> QED
    BY <1>1, <1>2, <1>3, <1>4

LEMMA AccountedStep ==
    ASSUME Typed, Typed', Free \/ Paid, NEW i \in Ids, Accounted(i), Pays(i)
    PROVE  Accounted(i)'
  <1>1. /\ count[i] \in Nat /\ count'[i] \in Nat
        /\ crashes \in Nat /\ faults \in Nat /\ crashes' \in Nat /\ faults' \in Nat
    BY ConstantsOK DEF Typed, TypeOK, GroupTypeOK, EnvTypeOK, ConstantsOK
  <1>2. Settlers(i) \in SUBSET Consumers /\ Settlers(i)' \in SUBSET Consumers
    BY DEF Settlers
  <1>3. PICK m \in Nat, n \in Nat : m = Cardinality(Settlers(i)) /\ n = Cardinality(Settlers(i)')
    BY <1>2, SettlersAreCounted
  <1>4. \/ count'[i] = 0
        \/ count'[i] = count[i] /\ m <= n
        \/ count'[i] = count[i] /\ count[i] < MaxRetries
        \/ count'[i] = count[i] /\ Paid /\ m <= n + 1
        \/ count'[i] = count[i] + 1 /\ Paid /\ m <= n
        \/ count'[i] = count[i] + 1 /\ m + 1 <= n
    BY <1>2, <1>3, SettlersAreCounted DEF Pays
  <1>5. count[i] > 0 => count[i] <= MaxRetries - 1 + m + crashes + faults
    BY <1>3 DEF Accounted
  <1>6. PICK k \in Nat, l \in Nat : k = count[i] /\ l = count'[i]
    BY <1>1
  <1>7. PICK e \in Nat, f \in Nat, g \in Nat, h \in Nat :
            e = crashes /\ f = faults /\ g = crashes' /\ h = faults'
    BY <1>1
  <1>8. (g = e /\ h = f) \/ (g = e + 1 /\ h = f) \/ (g = e /\ h = f + 1)
    BY <1>7, Zenon DEF Free, Paid
  <1>9. \/ l = 0
        \/ l = k /\ m <= n
        \/ l = k /\ k < MaxRetries
        \/ l = k /\ ((g = e + 1 /\ h = f) \/ (g = e /\ h = f + 1)) /\ m <= n + 1
        \/ l = k + 1 /\ ((g = e + 1 /\ h = f) \/ (g = e /\ h = f + 1)) /\ m <= n
        \/ l = k + 1 /\ m + 1 <= n
    BY <1>4, <1>6, <1>7, Zenon DEF Paid
  <1>10. k > 0 => k <= MaxRetries - 1 + m + e + f
    BY <1>5, <1>6, <1>7, Zenon
  <1>11. l > 0 => l <= MaxRetries - 1 + n + g + h
    BY <1>8, <1>9, <1>10, ConstantsOK DEF ConstantsOK
  <1> QED
    BY <1>3, <1>6, <1>7, <1>11, Zenon DEF Accounted

\* Moving on inside the handling of an entry leaves its settlers as they are,
\* moving to the dead letters can only add one.
LEMMA GotoKeeps ==
    ASSUME LoopTypeOK, NEW c \in Consumers, NEW w, Goto(c, w),
           w \notin {"handle", "publish", "ack"} \/ pc[c] \in {"handle", "publish", "ack"}
    PROVE  \A j \in Ids : Settlers(j) \subseteq Settlers(j)'
  BY DEF LoopTypeOK, Goto, Settlers, MayRetry

\* An entry left behind pending is one the replica may retry; the others of
\* the batch stay in hand.
LEMMA ContinueKeeps ==
    ASSUME LoopTypeOK, NEW c \in Consumers, NEW i \in Ids, Continue(c, i),
           NEW j \in Ids, j # i \/ MayRetry(c, i)
    PROVE  Settlers(j) \subseteq Settlers(j)'
  <1>1. ASSUME NEW k \in Settlers(j)
        PROVE  k \in Settlers(j)'
    <2>1. k \in Consumers /\ j \in batch[k] /\ ~MayRetry(k, j)
      BY DEF Settlers
    <2>2. CASE k # c
      BY <2>1, <2>2 DEF LoopTypeOK, Continue, Settlers, MayRetry
    <2>3. CASE k = c
      <3>1. j # i /\ j \in batch'[c] /\ pc'[c] = "take"
        BY <2>1, <2>3 DEF LoopTypeOK, Continue
      <3> QED
        BY <2>3, <3>1 DEF Settlers, MayRetry
    <2> QED
      BY <2>2, <2>3
  <1> QED
    BY <1>1

LEMMA RetryKeeps ==
    ASSUME LoopTypeOK, NEW c \in Consumers, NEW i \in Ids, RetryOrBury(c, i),
           \E w \in {"handle", "publish", "ack"} : At(c, i, w)
    PROVE  \A j \in Ids : Settlers(j) \subseteq Settlers(j)'
  <1>1. CASE seen[c] < MaxRetries
    <2>1. Continue(c, i) /\ MayRetry(c, i)
      BY <1>1 DEF RetryOrBury, MayRetry, At
    <2> QED
      BY <2>1, ContinueKeeps
  <1>2. CASE ~(seen[c] < MaxRetries)
    BY <1>2, GotoKeeps DEF RetryOrBury
  <1> QED
    BY <1>1, <1>2

\* A replica that lets go of its whole batch is one settler less for each.
LEMMA OneLess ==
    ASSUME LoopTypeOK, NEW c \in Consumers,
           \A k \in Consumers : k # c =>
               pc'[k] = pc[k] /\ batch'[k] = batch[k] /\ seen'[k] = seen[k]
    PROVE  \A j \in Ids : Settlers(j) \ {c} \subseteq Settlers(j)'
  BY DEF Settlers, MayRetry
LEMMA Keeps ==
    ASSUME \A j \in Ids : Settlers(j) \subseteq Settlers(j)',
           \A j \in Ids : count'[j] = count[j] \/ count'[j] = 0
    PROVE  \A j \in Ids : Pays(j)
  BY DEF Pays

LEMMA MessagePays ==
    ASSUME Typed, EmptyHanded, NEW c \in Consumers, NEW i \in Ids, Message(c, i)
    PROVE  /\ Free \/ Paid
           /\ \A j \in Ids : Pays(j)
           /\ EmptyHanded'
  <1>1. GroupTypeOK /\ LoopTypeOK
    BY DEF Typed, TypeOK
  <1>2. Free \/ Paid
    BY DEF Message, TakePill, TakeMalformed, TakeCommand, Reject, Execute, HandlerError, Publish,
           PublishFault, AckHandled, AckHandledFault, Respond, Bury, BuryFault, Settle, SettleFault,
           Fault, Free, Paid, envVars
  <1>3. ASSUME Continue(c, i) \/ Abandon(c)
                   \/ \E w \in {"handle", "publish", "ack", "respond", "bury", "settle"} : Goto(c, w)
        PROVE  EmptyHanded'
    BY <1>1, <1>3 DEF EmptyHanded, Continue, Abandon, Goto, EndOfBatch, Top, LoopTypeOK
  <1>4. CASE TakePill(c, i) \/ TakeMalformed(c, i) \/ Reject(c, i) \/ Execute(c, i)
               \/ Publish(c, i) \/ Respond(c, i) \/ Bury(c, i) \/ BuryFault(c, i)
    <2>1. UNCHANGED count
      BY <1>4 DEF TakePill, TakeMalformed, Reject, Execute, Publish, Respond, Bury, BuryFault, groupVars
    <2>2. \E w \in {"handle", "publish", "ack", "respond", "bury", "settle"} :
              /\ Goto(c, w)
              /\ w \notin {"handle", "publish", "ack"} \/ pc[c] \in {"handle", "publish", "ack"}
      BY <1>4 DEF TakePill, TakeMalformed, Reject, Execute, Publish, Respond, Bury, BuryFault, At
    <2>3. \A j \in Ids : Settlers(j) \subseteq Settlers(j)'
      BY <1>1, <2>2, GotoKeeps
    <2> QED
      BY <1>2, <1>3, <2>1, <2>2, <2>3, Keeps
  <1>5. CASE TakeCommand(c, i)
    <2>1. /\ At(c, i, "take") /\ UNCHANGED <<count, batch>>
          /\ \A k \in Consumers : k # c => pc'[k] = pc[k] /\ seen'[k] = seen[k]
          /\ pc'[c] = "handle"
          /\ \/ seen'[c] = count[i] /\ count[i] > 0
             \/ count[i] = 0
             \/ Paid
      BY <1>1, <1>5 DEF TakeCommand, LoopTypeOK, GroupTypeOK, groupVars, Fault, Paid
    <2>2. \A j \in Ids : Settlers(j) \ {c} \subseteq Settlers(j)'
      BY <1>1, <2>1, OneLess
    <2>3. ASSUME NEW j \in Ids, j # i
          PROVE  Settlers(j) \subseteq Settlers(j)'
      <3>1. j \in batch[c] => ~(\A h \in batch[c] : j <= h)
        BY <2>1, <2>3 DEF At, Ids
      <3>2. c \in Settlers(j) => c \in Settlers(j)'
        BY <2>1, <3>1 DEF Settlers, MayRetry
      <3> QED
        BY <2>2, <3>2
    <2>4. count[i] \in Nat /\ MaxRetries \in Nat
      BY <1>1, ConstantsOK DEF GroupTypeOK, ConstantsOK
    <2>5. CASE seen'[c] = count[i] /\ count[i] > 0 /\ ~(count[i] < MaxRetries)
      <3>1. c \in Settlers(i) => c \in Settlers(i)'
        BY <2>1, <2>5 DEF Settlers, MayRetry
      <3> QED
        BY <1>2, <2>1, <2>2, <2>3, <3>1, <1>5, <1>1 DEF Pays, EmptyHanded, LoopTypeOK
    <2>6. CASE count[i] < MaxRetries \/ count[i] = 0 \/ Paid
      <3>1. Pays(i)
        BY <2>1, <2>2, <2>6 DEF Pays
      <3>2. \A j \in Ids : Pays(j)
        BY <2>1, <2>3, <3>1 DEF Pays
      <3>3. EmptyHanded'
        BY <2>1 DEF EmptyHanded
      <3> QED
        BY <1>2, <3>2, <3>3
    <2> QED
      BY <2>1, <2>4, <2>5, <2>6
  <1>6. CASE HandlerError(c, i) \/ PublishFault(c, i) \/ AckHandledFault(c, i)
    <2>1. /\ RetryOrBury(c, i)
          /\ \E w \in {"handle", "publish", "ack"} : At(c, i, w)
          /\ UNCHANGED count \/ Ack(i)
      BY <1>6 DEF HandlerError, PublishFault, AckHandledFault, groupVars
    <2>2. \A j \in Ids : Settlers(j) \subseteq Settlers(j)'
      BY <1>1, <2>1, RetryKeeps
    <2>3. \A j \in Ids : count'[j] = count[j] \/ count'[j] = 0
      BY <1>1, <2>1, AckSteps
    <2>4. EmptyHanded'
      BY <1>3, <2>1 DEF RetryOrBury
    <2> QED
      BY <1>2, <2>2, <2>3, <2>4, Keeps
  <1>7. CASE AckHandled(c, i) \/ Settle(c, i)
    <2>1. Continue(c, i) /\ Ack(i)
      BY <1>7 DEF AckHandled, Settle
    <2>2. \A j \in Ids : count'[j] = IF j = i THEN 0 ELSE count[j]
      BY <1>1, <2>1, AckSteps
    <2>3. \A j \in Ids : j # i => Settlers(j) \subseteq Settlers(j)'
      BY <1>1, <2>1, ContinueKeeps
    <2> QED
      BY <1>2, <1>3, <2>1, <2>2, <2>3 DEF Pays
  <1>8. CASE SettleFault(c, i)
    <2>1. Paid /\ Abandon(c) /\ (UNCHANGED count \/ Ack(i))
      BY <1>8 DEF SettleFault, Fault, Paid, groupVars
    <2>2. \A j \in Ids : count'[j] = count[j] \/ count'[j] = 0
      BY <1>1, <2>1, AckSteps
    <2>3. \A j \in Ids : Settlers(j) \ {c} \subseteq Settlers(j)'
      BY <1>1, <2>1, OneLess DEF Abandon, LoopTypeOK
    <2> QED
      BY <1>2, <1>3, <2>1, <2>2, <2>3 DEF Pays
  <1> QED
    BY <1>4, <1>5, <1>6, <1>7, <1>8 DEF Message

\* A replica that is handed entries had none, and settles what it gets unless
\* it reads a low count later; if the answer is lost, a fault pays for it.
LEMMA HandoutPays ==
    ASSUME Typed, EmptyHanded, NEW c \in Consumers,
           Reclaim(c) \/ Read(c) \/ ReclaimFault(c) \/ ReadFault(c)
    PROVE  /\ Free \/ Paid
           /\ \A j \in Ids : Pays(j)
           /\ EmptyHanded'
  <1>1. GroupTypeOK /\ LoopTypeOK /\ batch[c] = {}
    BY DEF Typed, TypeOK, EmptyHanded, Reclaim, Read, ReclaimFault, ReadFault
  <1>2. \A j \in Ids : c \notin Settlers(j)
    BY <1>1 DEF Settlers
  <1>3. CASE Reclaim(c) \/ Read(c)
    <2>1. PICK S \in SUBSET Ids :
              /\ Deliver(S)
              /\ batch' = [batch EXCEPT ![c] = S]
              /\ \A k \in Consumers : k # c => pc'[k] = pc[k]
              /\ pc'[c] \in {"take", "reclaim", "read", "stopped"}
              /\ pc'[c] # "take" => S = {}
              /\ UNCHANGED <<seen, crashes, faults>>
      <3>1. CASE Reclaim(c)
        <4>1. Oldest(idle) \in SUBSET Ids
          BY <1>1, OldestSubset DEF GroupTypeOK
        <4> QED
          BY <1>1, <3>1, <4>1 DEF Reclaim, LoopTypeOK, envVars
      <3>2. CASE Read(c)
        <4>1. Fresh \in SUBSET Ids
          BY <1>1, FreshFacts
        <4> QED
          BY <1>1, <3>2, <4>1 DEF Read, Top, LoopTypeOK, envVars
      <3> QED
        BY <1>3, <3>1, <3>2
    <2>2. \A j \in Ids : count'[j] = IF j \in S THEN count[j] + 1 ELSE count[j]
      BY <1>1, <2>1, DeliverSteps
    <2>3. \A j \in Ids : Settlers(j) \subseteq Settlers(j)'
      <3>1. \A k \in Consumers : k # c => pc'[k] = pc[k] /\ batch'[k] = batch[k] /\ seen'[k] = seen[k]
        BY <1>1, <2>1 DEF LoopTypeOK
      <3> QED
        BY <1>1, <1>2, <3>1, OneLess
    <2>4. \A j \in S : c \in Settlers(j)'
      BY <1>1, <2>1 DEF Settlers, MayRetry, LoopTypeOK
    <2>5. \A j \in Ids : Pays(j)
      BY <1>2, <2>2, <2>3, <2>4 DEF Pays
    <2>6. EmptyHanded'
      BY <1>1, <2>1 DEF EmptyHanded, LoopTypeOK
    <2> QED
      BY <2>1, <2>5, <2>6 DEF Free
  <1>4. CASE ReclaimFault(c) \/ ReadFault(c)
    <2>1. /\ Paid
          /\ UNCHANGED <<batch, seen>>
          /\ \A k \in Consumers : k # c => pc'[k] = pc[k]
          /\ UNCHANGED count \/ \E S \in SUBSET Ids : Deliver(S)
      <3>1. Oldest(idle) \in SUBSET Ids /\ Fresh \in SUBSET Ids
        BY <1>1, OldestSubset, FreshFacts DEF GroupTypeOK
      <3> QED
        BY <1>1, <1>4, <3>1 DEF ReclaimFault, ReadFault, LoopTypeOK, Fault, Paid, groupVars
    <2>2. \A j \in Ids : count'[j] = count[j] \/ count'[j] = count[j] + 1
      BY <1>1, <2>1, DeliverSteps
    <2>3. \A j \in Ids : Settlers(j) \subseteq Settlers(j)'
      BY <1>1, <1>2, <2>1, OneLess
    <2>4. EmptyHanded'
      BY <1>1, <2>1 DEF EmptyHanded
    <2> QED
      BY <2>1, <2>2, <2>3, <2>4 DEF Pays
  <1> QED
    BY <1>3, <1>4

LEMMA StepPays ==
    ASSUME Typed, EmptyHanded, [Next]_vars
    PROVE  /\ Free \/ Paid
           /\ \A j \in Ids : Pays(j)
           /\ EmptyHanded'
  <1>1. LoopTypeOK
    BY DEF Typed, TypeOK
  <1>2. ASSUME Free \/ Paid, UNCHANGED <<count, pc, batch, seen>>
        PROVE  /\ \A j \in Ids : Pays(j)
               /\ EmptyHanded'
    BY <1>2 DEF Pays, Settlers, MayRetry, EmptyHanded
  <1>3. CASE UNCHANGED vars
    <2>1. Free /\ UNCHANGED <<count, pc, batch, seen>>
      BY <1>3 DEF vars, groupVars, loopVars, envVars, Free
    <2> QED
      BY <1>2, <2>1
  <1>4. ASSUME NEW m \in Commands, Produce(m) \/ Expire(m)
        PROVE  Free /\ UNCHANGED <<count, pc, batch, seen>>
    BY <1>4 DEF Produce, Expire, groupVars, loopVars, envVars, Free
  <1>5. ASSUME NEW i \in Ids, GoIdle(i)
        PROVE  Free /\ UNCHANGED <<count, pc, batch, seen>>
    BY <1>5 DEF GoIdle, loopVars, envVars, Free
  <1>6. ASSUME NEW c \in Consumers, Stop(c)
        PROVE  Free /\ UNCHANGED <<count, pc, batch, seen>>
    BY <1>6 DEF Stop, groupVars, envVars, Free
  <1>7. ASSUME NEW c \in Consumers, Start(c)
        PROVE  Free /\ (\A j \in Ids : Pays(j)) /\ EmptyHanded'
    <2>1. /\ Free /\ UNCHANGED <<count, batch, seen>> /\ batch[c] = {}
          /\ \A k \in Consumers : k # c => pc'[k] = pc[k]
      BY <1>1, <1>7 DEF Start, EmptyHanded, LoopTypeOK, groupVars, envVars, Free
    <2>2. \A j \in Ids : Settlers(j) \subseteq Settlers(j)'
      <3>1. \A j \in Ids : c \notin Settlers(j)
        BY <2>1 DEF Settlers
      <3> QED
        BY <1>1, <2>1, <3>1, OneLess
    <2> QED
      BY <2>1, <2>2, Keeps DEF EmptyHanded
  <1>8. ASSUME NEW c \in Consumers, Crash(c)
        PROVE  Paid /\ (\A j \in Ids : Pays(j)) /\ EmptyHanded'
    <2>1. /\ Paid /\ UNCHANGED count
          /\ batch'[c] = {}
          /\ \A k \in Consumers : k # c =>
                 pc'[k] = pc[k] /\ batch'[k] = batch[k] /\ seen'[k] = seen[k]
      BY <1>1, <1>8 DEF Crash, LoopTypeOK, groupVars, Paid
    <2>2. \A j \in Ids : Settlers(j) \ {c} \subseteq Settlers(j)'
      BY <1>1, <2>1, OneLess
    <2> QED
      BY <2>1, <2>2 DEF Pays, EmptyHanded
  <1>9. ASSUME NEW r \in Replayers,
               List(r) \/ ReplayerCrash(r) \/ \E d \in todo[r] : Letter(r, d)
        PROVE  (Free \/ Paid) /\ UNCHANGED <<count, pc, batch, seen>>
    <2>1. UNCHANGED <<count, pc, batch, seen>>
      BY <1>9, LetterFrame DEF groupVars, loopVars
    <2>2. Free \/ Paid
      BY <1>9 DEF List, ReplayerCrash, Letter, SkipLetter, CheckLetter, Reinject, ReinjectFault,
                  RemoveLetter, RemoveLetterFault, Fault, Free, Paid, envVars
    <2> QED
      BY <2>1, <2>2
  <1> QED
    BY <1>2, <1>3, <1>4, <1>5, <1>6, <1>7, <1>8, <1>9, MessagePays, HandoutPays DEF Next, Loop

LEMMA BoundedStep == Bounded /\ [Next]_vars => Bounded'
  <1> SUFFICES ASSUME Bounded, [Next]_vars
               PROVE  Bounded'
    OBVIOUS
  <1>1. Typed /\ Typed' /\ EmptyHanded
    BY TypedStep DEF Bounded
  <1>2. (Free \/ Paid) /\ (\A j \in Ids : Pays(j)) /\ EmptyHanded'
    BY <1>1, StepPays
  <1>3. \A j \in Ids : Accounted(j)'
    BY <1>1, <1>2, AccountedStep DEF Bounded
  <1> QED
    BY <1>1, <1>2, <1>3 DEF Bounded

\* The retry policy ends, for any number of replicas that take entries from
\* each other: MaxRetries deliveries, plus one for each other replica, each
\* death and each Redis call that fails (event-consumer.ts processMessages).
THEOREM RedeliveryIsBounded == Spec => []DeliveriesBounded
  <1>1. Init => Bounded
    <2>1. Init => EmptyHanded /\ \A i \in Ids : Accounted(i)
      BY DEF Init, EmptyHanded, Accounted
    <2> QED
      BY <2>1, TypedInit DEF Bounded
  <1>2. Bounded => DeliveriesBounded
    <2> SUFFICES ASSUME Bounded, NEW i \in Ids
                 PROVE  count[i] <= MaxRetries + Cardinality(Consumers) - 1 + crashes + faults
      BY DEF DeliveriesBounded
    <2>1. /\ count[i] \in Nat /\ crashes \in Nat /\ faults \in Nat
          /\ MaxRetries \in Nat \ {0}
      BY ConstantsOK DEF Bounded, Typed, TypeOK, GroupTypeOK, EnvTypeOK, ConstantsOK
    <2>2. /\ Cardinality(Settlers(i)) \in Nat /\ Cardinality(Consumers) \in Nat
          /\ Cardinality(Settlers(i)) <= Cardinality(Consumers)
      BY SettlersAreCounted DEF Settlers
    <2>3. count[i] > 0 =>
              count[i] <= MaxRetries - 1 + Cardinality(Settlers(i)) + crashes + faults
      BY DEF Bounded, Accounted
    <2> QED
      BY <2>1, <2>2, <2>3
  <1> QED
    BY <1>1, <1>2, BoundedStep, PTL DEF Spec
-----------------------------------------------------------------------------
(* The loop and the replay go forward.  A batch in hand, and the letters a   *)
(* replayer has listed, are worked off in a number of steps that is bounded  *)
(* in advance: nothing a replica or replayer does starts an item again.      *)

InBatch == {"take", "handle", "publish", "ack", "respond", "bury", "settle"}
Between == {"stopped", "reclaim", "read"}

Stage == [take |-> 7, handle |-> 6, publish |-> 5, ack |-> 4,
          respond |-> 3, bury |-> 2, settle |-> 1]

\* The steps a replica may still take on its batch: seven for each entry
\* behind the one in hand.
Steps(where, b) ==
    IF where \in InBatch THEN 7 * (Cardinality(b) - 1) + Stage[where] ELSE 0

LetterStage == [check |-> 3, xadd |-> 2, xdel |-> 1]

Letters(where, b) ==
    IF where \in {"check", "xadd", "xdel"} THEN 3 * (Cardinality(b) - 1) + LetterStage[where] ELSE 0

WorkBounded ==
    /\ \A c \in Consumers :
           /\ Steps(pc[c], batch[c]) \in 0..(7 * BatchSize)
           /\ pc[c] \in InBatch <=> Steps(pc[c], batch[c]) > 0
    /\ \A r \in Replayers :
           /\ Letters(rpc[r], todo[r]) \in 0..(3 * Len(dlqLog))
           /\ rpc[r] # "idle" <=> Letters(rpc[r], todo[r]) > 0

Forward(c) ==
    \/ pc'[c] = pc[c] /\ batch'[c] = batch[c]
    \/ pc[c] \notin InBatch
    \/ Steps(pc'[c], batch'[c]) < Steps(pc[c], batch[c])

ReplayForward(r) ==
    \/ rpc'[r] = rpc[r] /\ todo'[r] = todo[r]
    \/ rpc[r] = "idle"
    \/ Letters(rpc'[r], todo'[r]) < Letters(rpc[r], todo[r])

WorkForward ==
    /\ \A c \in Consumers : Forward(c)
    /\ \A r \in Replayers : ReplayForward(r)

\* A replica at a message has one, and never more than it asked for.
Loaded(c) == pc[c] \in InBatch => batch[c] # {} /\ Cardinality(batch[c]) <= BatchSize
Listed(r) == rpc[r] # "idle" => todo[r] # {}

WorkInv == (\A c \in Consumers : Loaded(c)) /\ (\A r \in Replayers : Listed(r))

LEMMA GreatestElement ==
    ASSUME NEW n \in Nat, NEW S \in SUBSET (1..n), S # {}
    PROVE  \E m \in S : \A j \in S : j <= m
  <1> DEFINE D == {n - j : j \in S}
  <1>1. D \in SUBSET Nat /\ D # {}
    OBVIOUS
  <1>2. PICK x \in D : \A y \in D : ~(<<y, x>> \in OpToRel(<, Nat))
    BY <1>1, NatLessThanWellFounded, WFMin
  <1>3. PICK m \in S : x = n - m
    BY <1>2
  <1>4. ASSUME NEW j \in S
        PROVE  j <= m
    <2>1. n - j \in Nat /\ x \in Nat /\ n - j \in D
      BY <1>1, <1>3
    <2>2. <<n - j, x>> \in Nat \X Nat /\ <<n - j, x>>[1] = n - j /\ <<n - j, x>>[2] = x
      BY <2>1
    <2> HIDE DEF D
    <2>3. ~(<<n - j, x>>[1] < <<n - j, x>>[2])
      BY <1>2, <2>1, <2>2, Zenon DEF OpToRel
    <2> QED
      BY <1>3, <2>1, <2>2, <2>3
  <1> QED
    BY <1>4

LEMMA IdsFinite ==
    \A b \in SUBSET Ids : IsFiniteSet(b) /\ Cardinality(b) \in Nat /\ (b # {} => Cardinality(b) >= 1)
  <1>1. IsFiniteSet(Ids)
    BY ConstantsOK, FS_Interval DEF Ids, ConstantsOK
  <1>2. \A b \in SUBSET Ids : IsFiniteSet(b) /\ Cardinality(b) \in Nat
    BY <1>1, FS_Subset, FS_CardinalityType
  <1> QED
    BY <1>2, FS_EmptySet

LEMMA OldestBounded ==
    ASSUME NEW S \in SUBSET Ids
    PROVE  Cardinality(Oldest(S)) <= BatchSize
  <1>1. BatchSize \in Nat \ {0} /\ MaxEntries \in Nat
    BY ConstantsOK DEF ConstantsOK
  <1>2. Oldest(S) \in SUBSET Ids
    BY OldestSubset
  <1>3. CASE Oldest(S) = {}
    BY <1>1, <1>3, FS_EmptySet
  <1>4. CASE Oldest(S) # {}
    <2>1. PICK m \in Oldest(S) : \A j \in Oldest(S) : j <= m
      BY <1>1, <1>2, <1>4, GreatestElement DEF Ids
    <2> DEFINE B == {j \in S : j < m}
    <2>2. Cardinality(B) < BatchSize /\ B \in SUBSET Ids
      BY <2>1 DEF Oldest
    <2>3. Oldest(S) \ {m} \subseteq B
      BY <1>2, <2>1, OldestSubset DEF Ids
    <2> HIDE DEF B
    <2>4. Cardinality(Oldest(S) \ {m}) <= Cardinality(B)
      BY <2>2, <2>3, IdsFinite, FS_Subset
    <2>5. Cardinality(Oldest(S) \ {m}) = Cardinality(Oldest(S)) - 1
      BY <1>2, <2>1, IdsFinite, FS_RemoveElement
    <2> QED
      BY <1>1, <1>2, <2>2, <2>4, <2>5, IdsFinite
  <1> QED
    BY <1>3, <1>4

LEMMA FreshBounded ==
    ASSUME GroupTypeOK
    PROVE  Cardinality(Fresh) <= BatchSize
  <1>1. /\ BatchSize \in Nat \ {0} /\ last \in Nat
        /\ Newest \in last..Len(stream) /\ Newest <= last + BatchSize /\ Newest \in Nat
    BY ConstantsOK, IdsFacts, FreshFacts DEF ConstantsOK, Newest
  <1>2. Cardinality(Fresh) = IF last + 1 <= Newest THEN Newest - (last + 1) + 1 ELSE 0
    BY <1>1, FS_Interval DEF Fresh
  <1> QED
    BY <1>1, <1>2

LEMMA StepsCounted ==
    ASSUME NEW b \in SUBSET Ids, NEW w \in InBatch \cup Between
    PROVE  /\ Cardinality(b) \in Nat /\ (b # {} => Cardinality(b) >= 1)
           /\ w \in InBatch => Steps(w, b) = 7 * (Cardinality(b) - 1) + Stage[w] /\ Stage[w] \in 1..7
           /\ w \in Between => Steps(w, b) = 0 /\ w \notin InBatch
           /\ w = "take" => Stage[w] = 7
  <1>1. w \in InBatch => Stage[w] \in 1..7
    BY DEF Stage, InBatch
  <1>2. w = "take" => Stage[w] = 7
    BY DEF Stage
  <1>3. w \in Between => w \notin InBatch
    BY DEF Between, InBatch
  <1> QED
    BY <1>1, <1>2, <1>3, IdsFinite DEF Steps

LEMMA LoadedCounts ==
    ASSUME NEW b \in SUBSET Ids, NEW w \in InBatch \cup Between,
           w \in InBatch => b # {} /\ Cardinality(b) <= BatchSize
    PROVE  Steps(w, b) \in 0..(7 * BatchSize) /\ (w \in InBatch <=> Steps(w, b) > 0)
  <1>1. BatchSize \in Nat \ {0}
    BY ConstantsOK DEF ConstantsOK
  <1> QED
    BY <1>1, StepsCounted

\* A replica that takes the next step of its entry, or leaves the entry, or
\* leaves the whole batch.
Onward(c, i) ==
    \/ \E w \in InBatch :
           /\ Stage[w] < Stage[pc[c]]
           /\ pc' = [pc EXCEPT ![c] = w]
           /\ UNCHANGED batch
    \/ Continue(c, i)
    \/ Abandon(c)

LEMMA OnwardBecause ==
    ASSUME NEW c \in Consumers, NEW i \in Ids, NEW w \in InBatch, NEW v \in InBatch,
           At(c, i, v), Stage[w] < Stage[v], Goto(c, w)
    PROVE  Onward(c, i)
  BY DEF Onward, Goto, At

LEMMA RetryOnward ==
    ASSUME NEW c \in Consumers, NEW i \in Ids, RetryOrBury(c, i),
           At(c, i, "handle") \/ At(c, i, "publish") \/ At(c, i, "ack")
    PROVE  Onward(c, i)
  <1>1. CASE Continue(c, i)
    BY <1>1 DEF Onward
  <1>2. CASE Goto(c, "respond")
    BY <1>2, OnwardBecause DEF Stage, InBatch
  <1> QED
    BY <1>1, <1>2 DEF RetryOrBury

LEMMA MessageOnward ==
    ASSUME NEW c \in Consumers, NEW i \in Ids, Message(c, i)
    PROVE  i \in batch[c] /\ pc[c] \in InBatch /\ Onward(c, i)
  <1>1. CASE TakePill(c, i) \/ TakeMalformed(c, i)
    BY <1>1, OnwardBecause DEF TakePill, TakeMalformed, Stage, InBatch, At
  <1>2. CASE TakeCommand(c, i)
    <2>1. /\ pc[c] = "take" /\ i \in batch[c]
          /\ pc' = [pc EXCEPT ![c] = "handle"] /\ UNCHANGED batch
      BY <1>2 DEF TakeCommand, At
    <2>2. Stage["handle"] < Stage["take"] /\ "handle" \in InBatch /\ "take" \in InBatch
      BY DEF Stage, InBatch
    <2> QED
      BY <2>1, <2>2, Zenon DEF Onward
  <1>3. CASE Reject(c, i) \/ Execute(c, i)
    BY <1>3, OnwardBecause DEF Reject, Execute, Stage, InBatch, At
  <1>4. CASE HandlerError(c, i) \/ PublishFault(c, i) \/ AckHandledFault(c, i)
    BY <1>4, RetryOnward DEF HandlerError, PublishFault, AckHandledFault, InBatch, At
  <1>5. CASE Publish(c, i) \/ Respond(c, i) \/ Bury(c, i) \/ BuryFault(c, i)
    BY <1>5, OnwardBecause DEF Publish, Respond, Bury, BuryFault, Stage, InBatch, At
  <1>6. CASE AckHandled(c, i) \/ Settle(c, i) \/ SettleFault(c, i)
    BY <1>6 DEF AckHandled, Settle, SettleFault, Onward, InBatch, At
  <1> QED
    BY <1>1, <1>2, <1>3, <1>4, <1>5, <1>6 DEF Message

LEMMA OnwardLowers ==
    ASSUME LoopTypeOK, NEW c \in Consumers, NEW i \in Ids,
           i \in batch[c], pc[c] \in InBatch, Loaded(c), Onward(c, i)
    PROVE  Forward(c) /\ Loaded(c)'
  <1>1. batch[c] \in SUBSET Ids /\ pc[c] \in InBatch \cup Between
    BY DEF LoopTypeOK
  <1>2. /\ Cardinality(batch[c]) \in Nat /\ Cardinality(batch[c]) >= 1
        /\ Cardinality(batch[c]) <= BatchSize /\ BatchSize \in Nat
        /\ Steps(pc[c], batch[c]) = 7 * (Cardinality(batch[c]) - 1) + Stage[pc[c]]
        /\ Stage[pc[c]] \in 1..7
    BY <1>1, StepsCounted, ConstantsOK DEF Loaded, ConstantsOK
  <1>3. EndOfBatch(c) \in Between
    BY DEF EndOfBatch, Top, Between
  <1>4. ASSUME NEW w \in InBatch, Stage[w] < Stage[pc[c]],
               pc' = [pc EXCEPT ![c] = w], UNCHANGED batch
        PROVE  Forward(c) /\ Loaded(c)'
    <2>1. pc'[c] = w /\ batch'[c] = batch[c]
      BY <1>4 DEF LoopTypeOK
    <2>2. Steps(w, batch[c]) = 7 * (Cardinality(batch[c]) - 1) + Stage[w] /\ Stage[w] \in 1..7
      BY <1>1, StepsCounted
    <2>3. Steps(w, batch[c]) < Steps(pc[c], batch[c])
      BY <1>2, <1>4, <2>2
    <2> QED
      BY <2>1, <2>3 DEF Forward, Loaded
  <1>5. CASE Continue(c, i)
    <2>1. batch'[c] = batch[c] \ {i} /\ pc'[c] = IF batch[c] = {i} THEN EndOfBatch(c) ELSE "take"
      BY <1>5 DEF LoopTypeOK, Continue
    <2>2. CASE batch[c] = {i}
      <3>1. pc'[c] \in Between /\ batch'[c] \in SUBSET Ids
        BY <1>3, <2>1, <2>2
      <3>2. Steps(pc'[c], batch'[c]) = 0 /\ pc'[c] \notin InBatch
        BY <3>1, StepsCounted
      <3> QED
        BY <1>2, <3>2 DEF Forward, Loaded
    <2>3. CASE batch[c] # {i}
      <3>1. pc'[c] = "take" /\ batch'[c] \in SUBSET Ids /\ batch'[c] # {}
        BY <1>1, <2>1, <2>3
      <3>2. Cardinality(batch'[c]) = Cardinality(batch[c]) - 1
        BY <1>1, <2>1, IdsFinite, FS_RemoveElement
      <3>3. Steps("take", batch'[c]) = 7 * (Cardinality(batch'[c]) - 1) + 7
        BY <3>1, StepsCounted DEF InBatch
      <3>4. Steps(pc'[c], batch'[c]) < Steps(pc[c], batch[c])
        BY <1>2, <3>1, <3>2, <3>3
      <3> QED
        BY <1>2, <3>1, <3>2, <3>4 DEF Forward, Loaded
    <2> QED
      BY <2>2, <2>3
  <1>6. CASE Abandon(c)
    <2>1. pc'[c] \in Between /\ batch'[c] \in SUBSET Ids
      BY <1>3, <1>6 DEF LoopTypeOK, Abandon
    <2>2. Steps(pc'[c], batch'[c]) = 0 /\ pc'[c] \notin InBatch
      BY <2>1, StepsCounted
    <2> QED
      BY <1>2, <2>2 DEF Forward, Loaded
  <1> QED
    BY <1>4, <1>5, <1>6 DEF Onward

LEMMA LoopForward ==
    ASSUME Typed, NEW c \in Consumers, Loaded(c),
           Start(c) \/ Stop(c) \/ Crash(c) \/ Loop(c)
    PROVE  Forward(c) /\ Loaded(c)'
  <1>1. GroupTypeOK /\ LoopTypeOK
    BY DEF Typed, TypeOK
  <1>2. ASSUME NEW i \in Ids, Message(c, i)
        PROVE  Forward(c) /\ Loaded(c)'
    BY <1>1, <1>2, MessageOnward, OnwardLowers
  <1>3. CASE Start(c)
    BY <1>1, <1>3 DEF Start, LoopTypeOK, Forward, Loaded, InBatch
  <1>4. CASE Stop(c)
    BY <1>1, <1>4 DEF Stop, Forward, Loaded
  <1>5. CASE Crash(c)
    <2>1. pc'[c] = "stopped" /\ batch'[c] = {} /\ {} \in SUBSET Ids /\ "stopped" \in Between
      BY <1>1, <1>5 DEF Crash, LoopTypeOK, Between
    <2>2. Steps(pc'[c], batch'[c]) = 0 /\ pc'[c] \notin InBatch
      BY <2>1, StepsCounted
    <2>3. pc[c] \in InBatch => Steps(pc[c], batch[c]) > 0 /\ Steps(pc[c], batch[c]) \in Nat
      BY <1>1, LoadedCounts, ConstantsOK DEF LoopTypeOK, Loaded, InBatch, Between, ConstantsOK
    <2> QED
      BY <2>2, <2>3 DEF Forward, Loaded
  <1>6. CASE Reclaim(c)
    <2>1. pc[c] \notin InBatch /\ Cardinality(Oldest(idle)) <= BatchSize
      BY <1>1, <1>6, OldestBounded DEF Reclaim, InBatch, GroupTypeOK
    <2> DEFINE S == Oldest(idle)
    <2>2. /\ pc'[c] = IF S = {} THEN "read" ELSE "take"
          /\ batch'[c] = S
      BY <1>1, <1>6 DEF Reclaim, LoopTypeOK
    <2> HIDE DEF S
    <2>3. pc'[c] \in InBatch => S # {}
      BY <2>2 DEF InBatch
    <2> QED
      BY <2>1, <2>2, <2>3 DEF Forward, Loaded, S
  <1>7. CASE Read(c)
    <2>1. pc[c] \notin InBatch /\ Cardinality(Fresh) <= BatchSize /\ Top(c) \notin InBatch
      BY <1>1, <1>7, FreshBounded DEF Read, InBatch, Top
    <2>2. /\ pc'[c] = IF Fresh = {} THEN Top(c) ELSE "take"
          /\ batch'[c] = Fresh
      BY <1>1, <1>7 DEF Read, LoopTypeOK
    <2> QED
      BY <2>1, <2>2 DEF Forward, Loaded
  <1>8. CASE ReclaimFault(c) \/ ReadFault(c)
    <2>1. pc[c] \notin InBatch /\ pc'[c] \notin InBatch
      BY <1>1, <1>8 DEF ReclaimFault, ReadFault, LoopTypeOK, InBatch, Top
    <2> QED
      BY <2>1 DEF Forward, Loaded
  <1> QED
    BY <1>2, <1>3, <1>4, <1>5, <1>6, <1>7, <1>8 DEF Loop

LEMMA LoopFrame ==
    ASSUME LoopTypeOK, NEW c \in Consumers, NEW k \in Consumers \ {c},
           Start(c) \/ Stop(c) \/ Crash(c) \/ Loop(c)
    PROVE  pc'[k] = pc[k] /\ batch'[k] = batch[k]
  <1>1. CASE Start(c) \/ Stop(c) \/ Crash(c)
    BY <1>1 DEF Start, Stop, Crash, LoopTypeOK
  <1>2. CASE Reclaim(c) \/ Read(c) \/ ReclaimFault(c) \/ ReadFault(c)
    BY <1>2 DEF Reclaim, Read, ReclaimFault, ReadFault, LoopTypeOK
  <1>3. ASSUME NEW i \in Ids, Message(c, i)
        PROVE  pc'[k] = pc[k] /\ batch'[k] = batch[k]
    BY <1>3, MessageOnward DEF Onward, Continue, Abandon, LoopTypeOK
  <1> QED
    BY <1>1, <1>2, <1>3 DEF Loop

LEMMA LettersCounted ==
    ASSUME Typed, NEW b \in SUBSET (1..Len(dlqLog))
    PROVE  /\ IsFiniteSet(b) /\ Cardinality(b) \in Nat /\ Cardinality(b) <= Len(dlqLog)
           /\ b # {} => Cardinality(b) >= 1
           /\ Letters("check", b) = 3 * (Cardinality(b) - 1) + 3
           /\ Letters("xadd", b) = 3 * (Cardinality(b) - 1) + 2
           /\ Letters("xdel", b) = 3 * (Cardinality(b) - 1) + 1
           /\ Letters("idle", b) = 0
  <1>1. Len(dlqLog) \in Nat
    BY DEF Typed, TypeOK, OutcomeTypeOK
  <1>2. IsFiniteSet(1..Len(dlqLog)) /\ Cardinality(1..Len(dlqLog)) = Len(dlqLog)
    BY <1>1, FS_Interval
  <1>3. IsFiniteSet(b) /\ Cardinality(b) \in Nat /\ Cardinality(b) <= Len(dlqLog)
    BY <1>2, FS_Subset, FS_CardinalityType
  <1>4. b # {} => Cardinality(b) >= 1
    BY <1>3, FS_EmptySet
  <1> QED
    BY <1>3, <1>4 DEF Letters, LetterStage

\* A replayer that is done with a letter has three steps fewer, or none.
LEMMA NextLetterLowers ==
    ASSUME Typed, NEW r \in Replayers, NEW d \in todo[r], NextLetter(r, d), rpc[r] # "idle"
    PROVE  ReplayForward(r) /\ Listed(r)'
  <1>1. /\ rpc[r] \in {"check", "xadd", "xdel"} /\ todo[r] \in SUBSET (1..Len(dlqLog))
        /\ todo'[r] = todo[r] \ {d}
        /\ rpc'[r] = IF todo[r] = {d} THEN "idle" ELSE "check"
    BY DEF NextLetter, Typed, TypeOK, ReplayerTypeOK
  <1>2. /\ IsFiniteSet(todo[r]) /\ Cardinality(todo[r]) \in Nat /\ Cardinality(todo[r]) >= 1
        /\ Letters(rpc[r], todo[r]) > 3 * (Cardinality(todo[r]) - 1)
        /\ Letters(rpc[r], todo[r]) \in Nat
    BY <1>1, LettersCounted
  <1>3. CASE todo[r] = {d}
    <2>1. Letters(rpc'[r], todo'[r]) = 0
      BY <1>1, <1>3 DEF Letters
    <2> QED
      BY <1>1, <1>2, <1>3, <2>1 DEF ReplayForward, Listed
  <1>4. CASE todo[r] # {d}
    <2>1. todo'[r] \in SUBSET (1..Len(dlqLog)) /\ todo'[r] # {} /\ rpc'[r] = "check"
      BY <1>1, <1>4
    <2>2. Cardinality(todo'[r]) = Cardinality(todo[r]) - 1
      BY <1>1, <1>2, FS_RemoveElement
    <2>3. Letters(rpc'[r], todo'[r]) = 3 * (Cardinality(todo'[r]) - 1) + 3
      BY <2>1, LettersCounted
    <2> QED
      BY <1>2, <2>1, <2>2, <2>3 DEF ReplayForward, Listed
  <1> QED
    BY <1>3, <1>4

LEMMA ReplayerForward ==
    ASSUME Typed, NEW r \in Replayers, Listed(r),
           List(r) \/ ReplayerCrash(r) \/ \E d \in todo[r] : Letter(r, d)
    PROVE  /\ ReplayForward(r) /\ Listed(r)'
           /\ \A q \in Replayers \ {r} : rpc'[q] = rpc[q] /\ todo'[q] = todo[q]
  <1>1. rpc[r] \in {"idle", "check", "xadd", "xdel"} /\ todo[r] \in SUBSET (1..Len(dlqLog))
    BY DEF Typed, TypeOK, ReplayerTypeOK
  <1>2. CASE List(r)
    BY <1>2 DEF List, Typed, TypeOK, ReplayerTypeOK, ReplayForward, Listed
  <1>3. CASE ReplayerCrash(r)
    <2>1. rpc[r] # "idle" /\ rpc'[r] = "idle"
      BY <1>3 DEF ReplayerCrash, Typed, TypeOK, ReplayerTypeOK
    <2>2. Letters(rpc'[r], todo'[r]) = 0
      BY <2>1 DEF Letters
    <2>3. Letters(rpc[r], todo[r]) > 0
      BY <1>1, <2>1, LettersCounted DEF Listed
    <2> QED
      BY <1>3, <2>1, <2>2, <2>3
      DEF ReplayForward, Listed, ReplayerCrash, Typed, TypeOK, ReplayerTypeOK
  <1>4. ASSUME NEW d \in todo[r], Letter(r, d)
        PROVE  /\ ReplayForward(r) /\ Listed(r)'
               /\ \A q \in Replayers \ {r} : rpc'[q] = rpc[q] /\ todo'[q] = todo[q]
    <2>1. CASE NextLetter(r, d) /\ rpc[r] # "idle"
      BY <2>1, NextLetterLowers DEF NextLetter, Typed, TypeOK, ReplayerTypeOK
    <2>2. CASE CheckLetter(r, d) \/ Reinject(r, d)
      <3>1. /\ \/ rpc[r] = "check" /\ rpc'[r] = "xadd"
               \/ rpc[r] = "xadd" /\ rpc'[r] = "xdel"
            /\ todo' = todo
            /\ \A q \in Replayers \ {r} : rpc'[q] = rpc[q]
        BY <2>2 DEF CheckLetter, Reinject, AtLetter, Typed, TypeOK, ReplayerTypeOK
      <3>2. Letters(rpc'[r], todo[r]) < Letters(rpc[r], todo[r])
        BY <1>1, <3>1, LettersCounted
      <3> QED
        BY <3>1, <3>2 DEF ReplayForward, Listed
    <2> QED
      BY <1>4, <2>1, <2>2
      DEF Letter, SkipLetter, ReinjectFault, RemoveLetter, RemoveLetterFault, AtLetter
  <1> QED
    BY <1>2, <1>3, <1>4

LEMMA WorkStep ==
    ASSUME Typed, WorkInv, [Next]_vars
    PROVE  WorkInv' /\ WorkForward
  <1>1. GroupTypeOK /\ LoopTypeOK
    BY DEF Typed, TypeOK
  <1>2. CASE UNCHANGED <<loopVars, replayerVars>>
    BY <1>2 DEF loopVars, replayerVars, WorkInv, WorkForward, Loaded, Listed, Forward, ReplayForward
  <1>3. ASSUME NEW c \in Consumers, Start(c) \/ Stop(c) \/ Crash(c) \/ Loop(c)
        PROVE  WorkInv' /\ WorkForward
    <2>1. UNCHANGED <<todo, rpc>>
      BY <1>3 DEF Start, Stop, Crash, Loop, Reclaim, Read, ReclaimFault, ReadFault, Message,
                  TakePill, TakeMalformed, TakeCommand, Reject, Execute, HandlerError, Publish,
                  PublishFault, AckHandled, AckHandledFault, Respond, Bury, BuryFault, Settle,
                  SettleFault, replayerVars
    <2>2. \A k \in Consumers : Forward(k) /\ Loaded(k)'
      <3> SUFFICES ASSUME NEW k \in Consumers
                   PROVE  Forward(k) /\ Loaded(k)'
        OBVIOUS
      <3>1. CASE k = c
        BY <1>3, <3>1, LoopForward DEF WorkInv
      <3>2. CASE k # c
        BY <1>1, <1>3, <3>2, LoopFrame DEF WorkInv, Forward, Loaded
      <3> QED
        BY <3>1, <3>2
    <2> QED
      BY <2>1, <2>2 DEF WorkInv, WorkForward, Listed, ReplayForward
  <1>4. ASSUME NEW r \in Replayers,
               List(r) \/ ReplayerCrash(r) \/ \E d \in todo[r] : Letter(r, d)
        PROVE  WorkInv' /\ WorkForward
    <2>1. UNCHANGED <<pc, batch>>
      BY <1>4, LetterFrame DEF loopVars
    <2>2. /\ ReplayForward(r) /\ Listed(r)'
          /\ \A q \in Replayers \ {r} : rpc'[q] = rpc[q] /\ todo'[q] = todo[q]
      BY <1>4, ReplayerForward DEF WorkInv
    <2>3. \A q \in Replayers : ReplayForward(q) /\ Listed(q)'
      BY <2>2 DEF ReplayForward, Listed, WorkInv
    <2> QED
      BY <2>1, <2>3 DEF WorkInv, WorkForward, Loaded, Forward
  <1> QED
    BY <1>2, <1>3, <1>4 DEF Next, Produce, Expire, GoIdle, vars

LEMMA WorkIsBounded == Typed /\ WorkInv => WorkBounded
  <1> SUFFICES ASSUME Typed, WorkInv
               PROVE  WorkBounded
    OBVIOUS
  <1>1. ASSUME NEW c \in Consumers
        PROVE  /\ Steps(pc[c], batch[c]) \in 0..(7 * BatchSize)
               /\ pc[c] \in InBatch <=> Steps(pc[c], batch[c]) > 0
    <2>1. batch[c] \in SUBSET Ids /\ pc[c] \in InBatch \cup Between /\ Loaded(c)
      BY DEF Typed, TypeOK, LoopTypeOK, InBatch, Between, WorkInv
    <2> QED
      BY <2>1, LoadedCounts DEF Loaded
  <1>2. ASSUME NEW r \in Replayers
        PROVE  /\ Letters(rpc[r], todo[r]) \in 0..(3 * Len(dlqLog))
               /\ rpc[r] # "idle" <=> Letters(rpc[r], todo[r]) > 0
    <2>1. /\ rpc[r] \in {"idle", "check", "xadd", "xdel"} /\ todo[r] \in SUBSET (1..Len(dlqLog))
          /\ Len(dlqLog) \in Nat /\ Listed(r)
      BY DEF Typed, TypeOK, ReplayerTypeOK, OutcomeTypeOK, WorkInv
    <2> QED
      BY <2>1, LettersCounted DEF Listed
  <1> QED
    BY <1>1, <1>2 DEF WorkBounded

\* A batch is worked off in at most seven steps for each of its BatchSize
\* entries, and a listing of dead letters in three for each: whatever fails, an
\* item is never begun a second time and the loop is back at its calls to Redis
\* (event-consumer.ts processMessages, media-command-dlq.ts).
THEOREM WorkAdvances == Spec => []WorkBounded /\ [][WorkForward]_vars
  <1>1. Init => WorkInv
    BY DEF Init, WorkInv, Loaded, Listed, InBatch
  <1>2. Typed /\ WorkInv /\ [Next]_vars => WorkInv' /\ WorkForward
    BY WorkStep
  <1> QED
    BY <1>1, <1>2, TypedInit, TypedStep, WorkIsBounded, PTL DEF Spec
=============================================================================

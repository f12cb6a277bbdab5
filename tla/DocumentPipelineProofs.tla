------------------------ MODULE DocumentPipelineProofs ------------------------
(***************************************************************************)
(* Proofs about DocumentPipeline, for any keys, contents, procedures and   *)
(* bounds.                                                                 *)
(***************************************************************************)
EXTENDS DocumentPipeline, SequenceTheorems, TLAPS

-----------------------------------------------------------------------------
(* Type correctness, one group of variables at a time.                      *)

LEMMA AnyKeyIsAKey == AnyKey \in Keys
  BY DocumentConstantsOK DEF AnyKey, DocumentConstantsOK

\* The ways a procedure moves on keep its variables typed.
LEMMA Moves ==
    ASSUME ProcType, FoundType, inserted \in Nat, inserted' \in {inserted, inserted + 1},
           NEW p \in Procs,
           \/ Finish(p) \/ Hang(p)
           \/ \E w \in Places : Goto(p, w) \/ Leave(p, w) \/ LetGo(p, w)
    PROVE  ProcType' /\ FoundType'
  <1>1. /\ op' \in [Procs -> Tasks] /\ pc' \in [Procs -> Places]
        /\ key' \in [Procs -> Keys] /\ size' \in [Procs -> Maybe] /\ buf' \in [Procs -> Maybe]
    BY AnyKeyIsAKey DEF ProcType, Finish, Hang, Rest, Goto, Leave, LetGo, Maybe, Places, Tasks
  <1>2. todo' \in [Procs -> SUBSET Item]
    BY DEF ProcType, Finish, Hang, Rest, Goto, Leave, LetGo
  <1>3. found' \in [Procs -> 0..inserted']
    BY DEF FoundType, Finish, Hang, Rest, Goto, Leave, LetGo
  <1> QED
    BY <1>1, <1>2, <1>3 DEF ProcType, FoundType

\* Each object is what it was, nothing, or a content.
LEMMA Stores ==
    ASSUME StoreType, NEW k \in Keys, NEW c \in Maybe,
           UNCHANGED quar \/ quar' = [quar EXCEPT ![k] = c],
           UNCHANGED prod \/ prod' = [prod EXCEPT ![k] = c]
    PROVE  StoreType'
  BY DEF StoreType

LEMMA Bounds ==
    ASSUME BoundType, UNCHANGED sent, UNCHANGED envVars \/ Fault
    PROVE  BoundType'
  BY DocumentConstantsOK DEF BoundType, envVars, Fault, DocumentConstantsOK

LEMMA Clients ==
    ASSUME ClientType, UNCHANGED cliVars, NEW k \in Keys,
           UNCHANGED fate \/ \E f \in Fates : fate' = [fate EXCEPT ![k] = f]
    PROVE  ClientType' /\ UNCHANGED sent
  BY DEF ClientType, cliVars

\* What the steps record of a key is one of the fates.
LEMMA FateTyped ==
    ASSUME ClientType, NEW p \in Procs, NEW k \in Keys, key[p] = k,
           UNCHANGED fate \/ Answer(p) \/ Clearing(k) \/ Restore(k)
           \/ fate' = [fate EXCEPT ![k] = "removed"]
    PROVE  UNCHANGED fate \/ \E f \in Fates : fate' = [fate EXCEPT ![k] = f]
  <1>1. fate[k] \in Fates
    BY DEF ClientType
  <1>2. CASE Answer(p)
    BY <1>2 DEF Answer, Fates
  <1>3. CASE Clearing(k)
    BY <1>1, <1>3 DEF Clearing, Fates
  <1>4. CASE Restore(k)
    BY <1>1, <1>4 DEF Restore, Fates
  <1> QED
    BY <1>2, <1>3, <1>4 DEF Fates

\* A procedure's step, in terms of what it does to each group.
LEMMA ProcedureTyped ==
    ASSUME TypeOK, NEW p \in Procs, NEW k \in Keys, NEW c \in Maybe,
           ProcType', found' \in [Procs -> 0..inserted'],
           UNCHANGED quar \/ quar' = [quar EXCEPT ![k] = c],
           UNCHANGED prod \/ prod' = [prod EXCEPT ![k] = c],
           RowType',
           UNCHANGED cliVars,
           UNCHANGED fate \/ \E f \in Fates : fate' = [fate EXCEPT ![k] = f],
           UNCHANGED envVars \/ Fault
    PROVE  TypeOK'
  BY Stores, Bounds, Clients DEF TypeOK, FoundType

LEMMA LookingTyped ==
    ASSUME TypeOK, NEW p \in Procs, Look(p) \/ Wait(p) \/ Meta(p) \/ Find(p) \/ Scan(p)
                                    \/ Probe(p) \/ ProbeQuar(p) \/ IfProd(p) \/ SweepEnd(p)
    PROVE  TypeOK'
  <1>1. Finish(p) \/ Hang(p) \/ \E w \in Places : Goto(p, w) \/ Leave(p, w) \/ LetGo(p, w)
    BY DEF Look, Wait, Meta, Find, Scan, ScanAnswers, Probe, ProbeQuar, IfProd, SweepEnd, Places,
           Promoted, NotPromoted, NextItem
  <1>2. UNCHANGED <<storeVars, dbVars, cliVars, fate>> /\ (UNCHANGED envVars \/ Fault)
    BY DEF Look, Wait, Meta, Find, Scan, ScanAnswers, Probe, ProbeQuar, IfProd, SweepEnd
  <1>3. ProcType' /\ FoundType' /\ RowType'
    BY <1>1, <1>2, Moves DEF TypeOK, RowType, dbVars
  <1>4. PICK k \in Keys : TRUE
    BY DocumentConstantsOK DEF DocumentConstantsOK
  <1>5. Nothing \in Maybe
    BY DEF Maybe
  <1> QED
    BY <1>2, <1>3, <1>4, <1>5, ProcedureTyped DEF storeVars, FoundType

\* The steps that write or delete an object.
LEMMA StoringTyped ==
    ASSUME TypeOK, NEW p \in Procs,
           \/ Upload(p) \/ Clear(p) \/ Drop(p) \/ Expire(p)
           \/ RemoveProd(p) \/ IfQuar(p) \/ RemoveQuar(p)
    PROVE  TypeOK'
  <1>1. Finish(p) \/ Hang(p) \/ \E w \in Places : Goto(p, w) \/ Leave(p, w) \/ LetGo(p, w)
    BY DEF Upload, Clear, Drop, Expire, RemoveProd, IfQuar, RemoveQuar, Places,
           Promoted, NotPromoted, Refused, NextItem, Answer
  <1>2. UNCHANGED <<dbVars, cliVars>> /\ (UNCHANGED envVars \/ Fault)
    BY DEF Upload, Clear, Drop, Expire, RemoveProd, IfQuar, RemoveQuar
  <1>3. key[p] \in Keys /\ buf[p] \in Maybe /\ Nothing \in Maybe
    BY DEF TypeOK, ProcType, Maybe
  <1>4. UNCHANGED fate
        \/ \E f \in Fates : fate' = [fate EXCEPT ![key[p]] = f]
    <2>1. ClientType
      BY DEF TypeOK
    <2>2. CASE Upload(p) \/ Clear(p) \/ Drop(p) \/ Expire(p)
      BY <1>3, <2>1, <2>2, FateTyped DEF Upload, Clear, Drop, Expire
    <2>3. CASE RemoveProd(p) \/ IfQuar(p) \/ RemoveQuar(p)
      BY <1>3, <2>1, <2>3, FateTyped DEF RemoveProd, IfQuar, RemoveQuar
    <2> QED
      BY <2>2, <2>3
  <1>5. \E c \in Maybe :
            /\ UNCHANGED quar \/ quar' = [quar EXCEPT ![key[p]] = c]
            /\ UNCHANGED prod \/ prod' = [prod EXCEPT ![key[p]] = c]
    <2>1. CASE Upload(p)
      BY <1>3, <2>1 DEF Upload
    <2>2. CASE Clear(p) \/ Drop(p) \/ Expire(p)
      BY <1>3, <2>2 DEF Clear, Drop, Expire, Remove
    <2>3. CASE RemoveProd(p) \/ IfQuar(p) \/ RemoveQuar(p)
      BY <1>3, <2>3 DEF RemoveProd, IfQuar, RemoveQuar, Remove, storeVars
    <2> QED
      BY <2>1, <2>2, <2>3
  <1>6. ProcType' /\ FoundType' /\ RowType'
    BY <1>1, <1>2, Moves DEF TypeOK, RowType, dbVars
  <1> QED
    BY <1>2, <1>3, <1>4, <1>5, <1>6, ProcedureTyped DEF FoundType

\* The steps that only change what the procedure knows.
LEMMA ReadingTyped ==
    ASSUME TypeOK, NEW p \in Procs,
           Get(p) \/ Sweep(p) \/ SweepItem(p) \/ Select(p) \/ ListRows(p)
    PROVE  TypeOK'
  <1>1. UNCHANGED <<storeVars, dbVars, cliVars, fate>> /\ (UNCHANGED envVars \/ Fault)
    BY DEF Get, Sweep, SweepItem, Select, ListRows
  <1>2. StoreType /\ RowType /\ ProcType /\ FoundType
    BY DEF TypeOK
  <1>3. RowType'
    BY <1>1, <1>2 DEF RowType, dbVars
  <1>4. ProcType' /\ FoundType'
    <2>1. ASSUME Finish(p) \/ Hang(p) \/ \E w \in Places : Goto(p, w) \/ Leave(p, w) \/ LetGo(p, w)
          PROVE  ProcType' /\ FoundType'
      BY <1>1, <1>2, <2>1, Moves DEF RowType, dbVars
    <2>2. CASE Get(p)
      <3>1. CASE NotPromoted(p)
        BY <2>1, <3>1 DEF NotPromoted, NextItem, Places
      <3>2. CASE /\ buf' = [buf EXCEPT ![p] = quar[key[p]]]
                 /\ pc' = [pc EXCEPT ![p] = "scan"]
                 /\ UNCHANGED <<op, key, size, found, todo>>
        BY <1>1, <1>2, <3>2 DEF ProcType, FoundType, StoreType, Places, dbVars
      <3> QED
        BY <2>2, <3>1, <3>2 DEF Get
    <2>3. CASE Sweep(p)
      <3>1. {it \in Item : quar[it.key] # Nothing /\ it.age = Listed(it.key)} \subseteq Item
        OBVIOUS
      <3> QED
        BY <1>1, <1>2, <2>3, <3>1 DEF Sweep, ProcType, FoundType, Places, Tasks, dbVars
    <2>4. CASE SweepItem(p)
      <3>1. PICK it \in todo[p] :
                /\ todo' = [todo EXCEPT ![p] = @ \ {it}]
                /\ key' = [key EXCEPT ![p] = it.key]
                /\ pc' = [pc EXCEPT ![p] = CASE it.age = "young" -> "next"
                                             [] it.age \in {"ripe", "undated"} -> "get"
                                             [] it.age = "old" -> "expire"]
                /\ UNCHANGED <<op, size, buf, found>>
        BY <2>4 DEF SweepItem
      <3>2. it.key \in Keys /\ it.age \in {"young", "ripe", "old", "undated"}
        BY <1>2 DEF ProcType, Item
      <3>3. \E w \in Places : pc' = [pc EXCEPT ![p] = w]
        BY <3>1, <3>2 DEF Places
      <3> QED
        BY <1>1, <1>2, <3>1, <3>2, <3>3 DEF ProcType, FoundType, dbVars
    <2>5. CASE Select(p)
      <3>1. row[key[p]].id \in 0..inserted
        BY <1>2 DEF RowType, ProcType
      <3>2. CASE Finish(p)
        BY <2>1, <3>2
      <3>3. CASE /\ found' = [found EXCEPT ![p] = row[key[p]].id]
                 /\ pc' = [pc EXCEPT ![p] = "remove"]
                 /\ UNCHANGED <<op, key, size, buf, todo>>
        BY <1>1, <1>2, <3>1, <3>3 DEF ProcType, FoundType, Places, dbVars
      <3> QED
        BY <2>5, <3>2, <3>3 DEF Select
    <2>6. CASE ListRows(p)
      <3>1. CASE Finish(p)
        BY <2>1, <3>1
      <3>2. CASE /\ \E S \in SUBSET Item : todo' = [todo EXCEPT ![p] = S]
                 /\ pc' = [pc EXCEPT ![p] = "wipe"]
                 /\ UNCHANGED <<op, key, size, buf, found>>
        BY <1>1, <1>2, <3>2 DEF ProcType, FoundType, Places, dbVars
      <3> QED
        BY <2>6, <3>1, <3>2 DEF ListRows
    <2> QED
      BY <2>2, <2>3, <2>4, <2>5, <2>6
  <1>5. key[p] \in Keys /\ Nothing \in Maybe
    BY <1>2 DEF ProcType, Maybe
  <1> QED
    BY <1>1, <1>3, <1>4, <1>5, ProcedureTyped DEF storeVars, FoundType

\* The steps on rows, and the clean-up of a removed user.
LEMMA RowsTyped ==
    ASSUME TypeOK, NEW p \in Procs,
           Insert(p) \/ DeleteRow(p) \/ WipeObject(p) \/ WipeRows(p)
    PROVE  TypeOK'
  <1>1. StoreType /\ RowType /\ ClientType /\ ProcType /\ FoundType
    BY DEF TypeOK
  <1>2. key[p] \in Keys /\ size[p] \in Maybe /\ Nothing \in Maybe /\ found[p] \in 0..inserted
    BY <1>1 DEF ProcType, FoundType, Maybe
  <1>3. UNCHANGED cliVars /\ (UNCHANGED envVars \/ Fault)
    BY DEF Insert, DeleteRow, WipeObject, WipeRows
  <1>4. CASE Insert(p)
    <2>1. UNCHANGED dbVars
          \/ /\ row' = [row EXCEPT ![key[p]] = [id |-> inserted + 1, size |-> size[p]]]
             /\ inserted' = inserted + 1
      BY <1>4 DEF Insert
    <2>2. RowType' /\ inserted \in Nat /\ inserted' \in {inserted, inserted + 1}
      BY <1>1, <1>2, <2>1 DEF RowType, dbVars
    <2>3. ProcType' /\ FoundType' /\ UNCHANGED storeVars
      BY <1>1, <1>4, <2>2, Moves DEF Insert
    <2>4. UNCHANGED fate \/ \E f \in Fates : fate' = [fate EXCEPT ![key[p]] = f]
      BY <1>1, <1>2, <1>4, FateTyped DEF Insert
    <2> QED
      BY <1>2, <1>3, <2>2, <2>3, <2>4, ProcedureTyped DEF storeVars, FoundType
  <1>5. CASE DeleteRow(p)
    <2>1. /\ UNCHANGED <<storeVars, inserted>> /\ Finish(p)
          /\ row' = row \/ row' = [row EXCEPT ![key[p]] = [id |-> 0, size |-> Nothing]]
          /\ UNCHANGED fate \/ Answer(p)
      BY <1>5 DEF DeleteRow, Answer
    <2>2. RowType' /\ inserted \in Nat
      BY <1>1, <1>2, <2>1 DEF RowType
    <2>3. ProcType' /\ FoundType'
      BY <1>1, <2>1, <2>2, Moves
    <2>4. UNCHANGED fate \/ \E f \in Fates : fate' = [fate EXCEPT ![key[p]] = f]
      BY <1>1, <1>2, <2>1, FateTyped
    <2> QED
      BY <1>2, <1>3, <2>1, <2>2, <2>3, <2>4, ProcedureTyped DEF storeVars, FoundType
  <1>6. CASE WipeObject(p)
    <2>1. PICK it \in todo[p] :
              /\ todo' = [todo EXCEPT ![p] = @ \ {it}]
              /\ UNCHANGED prod \/ prod' = [prod EXCEPT ![it.key] = Nothing]
              /\ UNCHANGED fate \/ \E f \in Fates : fate' = [fate EXCEPT ![it.key] = f]
      BY <1>6 DEF WipeObject, Remove, Fates
    <2>2. UNCHANGED <<quar, dbVars, op, pc, key, size, buf, found>>
      BY <1>6 DEF WipeObject
    <2>3. it.key \in Keys
      BY <1>1 DEF ProcType, Item
    <2>4. ProcType' /\ FoundType' /\ RowType'
      BY <1>1, <2>1, <2>2 DEF ProcType, FoundType, RowType, dbVars
    <2> QED
      BY <1>2, <1>3, <2>1, <2>2, <2>3, <2>4, ProcedureTyped DEF FoundType
  <1>7. CASE WipeRows(p)
    <2>1. /\ Finish(p) /\ UNCHANGED <<storeVars, inserted, fate>>
          /\ \/ UNCHANGED row
             \/ row' = [k \in Keys |-> IF k \in Personal THEN [id |-> 0, size |-> Nothing] ELSE row[k]]
      BY <1>7 DEF WipeRows
    <2>2. RowType' /\ inserted \in Nat
      BY <1>1, <1>2, <2>1 DEF RowType
    <2>3. ProcType' /\ FoundType'
      BY <1>1, <2>1, <2>2, Moves
    <2> QED
      BY <1>2, <1>3, <2>1, <2>2, <2>3, ProcedureTyped DEF storeVars, FoundType
  <1> QED
    BY <1>4, <1>5, <1>6, <1>7

\* The client, the clock, new requests and deaths.
LEMMA OutsideTyped ==
    ASSUME TypeOK,
           \/ \E k \in Keys : Client(k)
           \/ \E p \in Procs : Start(p) \/ Crash(p)
    PROVE  TypeOK'
  <1>1. StoreType /\ RowType /\ ClientType /\ ProcType /\ FoundType /\ BoundType
    BY DEF TypeOK
  <1>2. ASSUME NEW k \in Keys, OpenPar(k) \/ ClosePar(k) \/ Age(k)
        PROVE  TypeOK'
    <2>1. UNCHANGED <<storeVars, dbVars, procVars, sent, fate, envVars>>
      BY <1>2 DEF OpenPar, PersonalUrl, SharedUrl, ClosePar, Age
    <2>2. ClientType'
      BY <1>1, <1>2 DEF ClientType, OpenPar, PersonalUrl, SharedUrl, ClosePar, Age
    <2> QED
      BY <1>1, <2>1, <2>2 DEF TypeOK, StoreType, RowType, ProcType, FoundType, BoundType,
                              storeVars, dbVars, procVars, envVars
  <1>3. ASSUME NEW k \in Keys, NEW c \in Contents, Put(k, c)
        PROVE  TypeOK'
    <2>1. /\ Len(sent[k]) < MaxPuts /\ quar' = [quar EXCEPT ![k] = c]
          /\ age' = [age EXCEPT ![k] = "young"] /\ fate' = [fate EXCEPT ![k] = "kept"]
          /\ sent' = [sent EXCEPT ![k] = Append(@, c)]
          /\ UNCHANGED <<prod, par, dbVars, procVars, envVars>>
      BY <1>3 DEF Put
    <2>2. c \in Maybe
      BY DEF Maybe
    <2>3. sent[k] \in Seq(Contents) /\ Append(sent[k], c) \in Seq(Contents)
          /\ Len(Append(sent[k], c)) = Len(sent[k]) + 1 /\ Len(sent[k]) \in Nat
      BY <1>1 DEF ClientType
    <2>4. StoreType' /\ ClientType'
      BY <1>1, <2>1, <2>2, <2>3 DEF StoreType, ClientType, Fates
    <2>5. BoundType'
      <3>1. \A j \in Keys : sent'[j] = IF j = k THEN Append(sent[k], c) ELSE sent[j]
        BY <1>1, <2>1 DEF ClientType
      <3>2. \A j \in Keys : Len(sent'[j]) <= MaxPuts
        BY <1>1, <2>1, <2>3, <3>1, DocumentConstantsOK DEF BoundType, DocumentConstantsOK
      <3> QED
        BY <1>1, <2>1, <3>2 DEF BoundType, envVars
    <2> QED
      BY <1>1, <2>1, <2>4, <2>5 DEF TypeOK, RowType, ProcType, FoundType, dbVars, procVars
  <1>4. ASSUME NEW p \in Procs, Start(p)
        PROVE  TypeOK'
    <2>1. PICK what \in Tasks, k \in Keys, c \in Maybe, w \in Places : Begin(p, what, k, c, w)
      <3>1. Personal \subseteq Keys /\ Contents \subseteq Maybe /\ Nothing \in Maybe
        BY DEF Keys, Maybe
      <3> QED
        BY <1>4, <3>1 DEF Start, Confirm, ResolveMetadata, Delete, CollabDelete, Anonymize, Tasks, Places
    <2>2. ProcType' /\ FoundType'
      BY <1>1, <2>1 DEF Begin, ProcType, FoundType, dbVars
    <2>3. UNCHANGED <<storeVars, dbVars, cliVars, fate, envVars>>
      BY <2>1 DEF Begin
    <2> QED
      BY <1>1, <2>2, <2>3 DEF TypeOK, StoreType, RowType, ClientType, BoundType,
                              storeVars, dbVars, cliVars, envVars
  <1>5. ASSUME NEW p \in Procs, Crash(p)
        PROVE  TypeOK'
    <2>1. Finish(p) /\ UNCHANGED <<storeVars, dbVars, cliVars, fate, faults>>
          /\ crashes < MaxCrashes /\ crashes' = crashes + 1
      BY <1>5 DEF Crash
    <2>2. ProcType' /\ FoundType'
      BY <1>1, <2>1, Moves DEF RowType, dbVars
    <2>3. BoundType'
      BY <1>1, <2>1, DocumentConstantsOK DEF BoundType, cliVars, DocumentConstantsOK
    <2> QED
      BY <1>1, <2>1, <2>2, <2>3 DEF TypeOK, StoreType, RowType, ClientType,
                                    storeVars, dbVars, cliVars
  <1> QED
    BY <1>2, <1>3, <1>4, <1>5 DEF Client

LEMMA DocumentTypedStep == TypeOK /\ [Next]_vars => TypeOK'
  <1>1. CASE UNCHANGED vars
    BY <1>1 DEF vars, storeVars, dbVars, procVars, cliVars, envVars, TypeOK, StoreType, RowType,
                ClientType, ProcType, FoundType, BoundType
  <1>2. ASSUME TypeOK, NEW p \in Procs, Proceed(p)
        PROVE  TypeOK'
    BY <1>2, LookingTyped, StoringTyped, ReadingTyped, RowsTyped
       DEF Proceed, Promotion, Sweeping, Deletion
  <1>3. ASSUME TypeOK, Next
        PROVE  TypeOK'
    BY <1>2, <1>3, OutsideTyped DEF Next
  <1> QED
    BY <1>1, <1>3

LEMMA DocumentTypedInit == Init => TypeOK
  <1> SUFFICES ASSUME Init
               PROVE  TypeOK
    OBVIOUS
  <1>1. StoreType /\ RowType /\ FoundType
    BY DEF Init, StoreType, RowType, FoundType, Maybe
  <1>2. ClientType /\ BoundType
    BY DocumentConstantsOK DEF Init, ClientType, BoundType, Fates, DocumentConstantsOK
  <1>3. ProcType
    BY AnyKeyIsAKey DEF Init, ProcType, Maybe, Places, Tasks
  <1> QED
    BY <1>1, <1>2, <1>3 DEF TypeOK

\* Every variable has its type; rows and selected rows carry ids that were
\* handed out (document.service.ts, collab-document.service.ts).
THEOREM DocumentTypeCorrect == Spec => []TypeOK
  BY DocumentTypedInit, DocumentTypedStep, PTL DEF Spec

-----------------------------------------------------------------------------
(* Nothing unscanned in production.  What a procedure is about to upload    *)
(* has passed the scan, and what it is about to register was read from      *)
(* production; neither depends on the objects any more.                     *)

Scanned ==
    \A p \in Procs :
        /\ pc[p] = "upload" => buf[p] \in Clean
        /\ pc[p] = "insert" => size[p] \in Clean

CleanInv == TypeOK /\ Scanned /\ ProductionIsClean

\* A procedure that does not arrive at an upload or an insertion.
LEMMA Elsewhere ==
    ASSUME TypeOK, Scanned, NEW p \in Procs,
           \/ Finish(p) \/ Hang(p)
           \/ \E w \in Places \ {"upload", "insert"} : Goto(p, w) \/ Leave(p, w) \/ LetGo(p, w)
    PROVE  Scanned'
  <1>1. ASSUME NEW q \in Procs, q # p
        PROVE  pc'[q] = pc[q] /\ buf'[q] = buf[q] /\ size'[q] = size[q]
    BY <1>1 DEF TypeOK, ProcType, Finish, Hang, Rest, Goto, Leave, LetGo
  <1>2. pc'[p] \notin {"upload", "insert"}
    BY DEF TypeOK, ProcType, Finish, Hang, Rest, Goto, Leave, LetGo
  <1> QED
    BY <1>1, <1>2 DEF Scanned

LEMMA CleanStep == CleanInv /\ [Next]_vars => CleanInv'
  <1> SUFFICES ASSUME CleanInv, [Next]_vars
               PROVE  CleanInv'
    OBVIOUS
  <1>1. TypeOK /\ Scanned /\ ProductionIsClean /\ TypeOK'
    BY DocumentTypedStep DEF CleanInv
  <1>2. StoreType /\ RowType /\ ProcType
    BY <1>1 DEF TypeOK
  <1> SUFFICES Scanned' /\ ProductionIsClean'
    BY <1>1 DEF CleanInv
  <1>3. ASSUME UNCHANGED <<prod, row>>
        PROVE  ProductionIsClean'
    BY <1>1, <1>3 DEF ProductionIsClean
  <1>4. ASSUME UNCHANGED procVars
        PROVE  Scanned'
    BY <1>1, <1>4 DEF Scanned, procVars
  <1>5. CASE UNCHANGED vars
    BY <1>3, <1>4, <1>5 DEF vars, storeVars, dbVars
  <1>6. ASSUME NEW k \in Keys, Client(k)
        PROVE  Scanned' /\ ProductionIsClean'
    BY <1>3, <1>4, <1>6 DEF Client, OpenPar, PersonalUrl, SharedUrl, ClosePar, Age, Put, storeVars, dbVars
  <1>7. ASSUME NEW p \in Procs, Start(p)
        PROVE  Scanned' /\ ProductionIsClean'
    <2>1. PICK what \in Tasks, k \in Keys, c \in Maybe, w \in {"look", "select", "probe", "list"} :
              Begin(p, what, k, c, w)
      <3>1. Personal \subseteq Keys /\ Contents \subseteq Maybe /\ Nothing \in Maybe
        BY DEF Keys, Maybe
      <3> QED
        BY <1>7, <3>1 DEF Start, Confirm, ResolveMetadata, Delete, CollabDelete, Anonymize, Tasks
    <2>2. UNCHANGED <<prod, row, buf>> /\ pc' = [pc EXCEPT ![p] = w]
          /\ size' = [size EXCEPT ![p] = c]
      BY <2>1 DEF Begin, storeVars, dbVars
    <2>3. Scanned'
      BY <1>1, <1>2, <2>2 DEF Scanned, ProcType
    <2> QED
      BY <1>3, <2>2, <2>3
  <1>8. ASSUME NEW p \in Procs, Crash(p)
        PROVE  Scanned' /\ ProductionIsClean'
    BY <1>1, <1>3, <1>8, Elsewhere DEF Crash, storeVars, dbVars
  <1>9. ASSUME NEW p \in Procs, Look(p) \/ Wait(p) \/ Find(p) \/ Probe(p) \/ ProbeQuar(p) \/ IfProd(p)
                              \/ SweepEnd(p) \/ Clear(p) \/ Drop(p) \/ Expire(p)
                              \/ IfQuar(p) \/ RemoveQuar(p)
        PROVE  Scanned' /\ ProductionIsClean'
    <2>1. Finish(p) \/ Hang(p) \/ \E w \in Places \ {"upload", "insert"} : Goto(p, w) \/ Leave(p, w) \/ LetGo(p, w)
      BY <1>9 DEF Look, Wait, Find, Probe, ProbeQuar, IfProd, SweepEnd, Clear, Drop, Expire,
                  IfQuar, RemoveQuar, Answer, Places, Promoted, NotPromoted, Refused, NextItem
    <2>2. UNCHANGED <<prod, row>>
      BY <1>9 DEF Look, Wait, Find, Probe, ProbeQuar, IfProd, SweepEnd, Clear, Drop, Expire,
                  IfQuar, RemoveQuar, storeVars, dbVars
    <2> QED
      BY <1>1, <1>3, <2>1, <2>2, Elsewhere
  <1>10. ASSUME NEW p \in Procs, Meta(p)
         PROVE  Scanned' /\ ProductionIsClean'
    <2>1. UNCHANGED <<prod, row>>
      BY <1>10 DEF Meta, storeVars, dbVars
    <2>2. CASE Finish(p) \/ Goto(p, "wait")
      BY <1>1, <1>3, <2>1, <2>2, Elsewhere DEF Places
    <2>3. CASE prod[key[p]] # Nothing /\ prod[key[p]] = size[p] /\ Goto(p, "insert")
      <3>1. size[p] \in Clean
        BY <1>1, <1>2, <2>3 DEF ProcType, ProductionIsClean
      <3>2. Scanned'
        BY <1>1, <1>2, <2>3, <3>1 DEF Scanned, Goto, ProcType
      <3> QED
        BY <1>3, <2>1, <3>2
    <2> QED
      BY <1>10, <2>2, <2>3 DEF Meta
  <1>11. ASSUME NEW p \in Procs, Insert(p)
         PROVE  Scanned' /\ ProductionIsClean'
    <2>1. /\ Finish(p) /\ UNCHANGED prod /\ pc[p] = "insert"
          /\ UNCHANGED row \/ row' = [row EXCEPT ![key[p]] = [id |-> inserted + 1, size |-> size[p]]]
      BY <1>11 DEF Insert, storeVars, dbVars
    <2>2. size[p] \in Clean
      BY <1>1, <2>1 DEF Scanned
    <2>3. ProductionIsClean'
      BY <1>1, <1>2, <2>1, <2>2 DEF ProductionIsClean, RowType
    <2> QED
      BY <1>1, <2>1, <2>3, Elsewhere
  <1>12. ASSUME NEW p \in Procs, Get(p) \/ Sweep(p) \/ SweepItem(p) \/ Select(p) \/ ListRows(p)
         PROVE  Scanned' /\ ProductionIsClean'
    <2>1. UNCHANGED <<prod, row>>
      BY <1>12 DEF Get, Sweep, SweepItem, Select, ListRows, storeVars, dbVars
    <2>2. \A q \in Procs : q # p => pc'[q] = pc[q] /\ buf'[q] = buf[q] /\ size'[q] = size[q]
      BY <1>2, <1>12 DEF Get, Sweep, SweepItem, Select, ListRows, NotPromoted, NextItem, Finish, Hang, Rest,
                         Goto, Leave, LetGo, ProcType
    <2>3. pc'[p] \notin {"upload", "insert"}
      <3>1. CASE Get(p) \/ Sweep(p) \/ Select(p) \/ ListRows(p)
        BY <1>2, <3>1 DEF Get, Sweep, Select, ListRows, NotPromoted, NextItem, Finish, Hang, Rest,
                          Goto, Leave, LetGo, ProcType
      <3>2. CASE SweepItem(p)
        <4>1. PICK it \in todo[p] :
                  pc' = [pc EXCEPT ![p] = CASE it.age = "young" -> "next"
                                            [] it.age \in {"ripe", "undated"} -> "get"
                                            [] it.age = "old" -> "expire"]
          BY <3>2 DEF SweepItem
        <4>2. it.age \in {"young", "ripe", "old", "undated"}
          BY <1>2 DEF ProcType, Item
        <4> QED
          BY <1>2, <4>1, <4>2 DEF ProcType
      <3> QED
        BY <1>12, <3>1, <3>2
    <2>4. Scanned'
      BY <1>1, <2>2, <2>3 DEF Scanned
    <2> QED
      BY <1>3, <2>1, <2>4
  <1>13. ASSUME NEW p \in Procs, Scan(p)
         PROVE  Scanned' /\ ProductionIsClean'
    <2>1. UNCHANGED <<prod, row>>
      BY <1>13 DEF Scan, ScanAnswers, storeVars, dbVars
    <2>2. CASE Goto(p, "drop") \/ NotPromoted(p) \/ Hang(p) \/ Finish(p)
      BY <1>1, <1>3, <2>1, <2>2, Elsewhere DEF NotPromoted, NextItem, Places
    <2>3. CASE buf[p] \in Clean /\ Goto(p, "upload")
      <3>1. Scanned'
        BY <1>1, <1>2, <2>3 DEF Scanned, Goto, ProcType
      <3> QED
        BY <1>3, <2>1, <3>1
    <2> QED
      BY <1>13, <2>2, <2>3 DEF Scan, ScanAnswers
  <1>14. ASSUME NEW p \in Procs, Upload(p)
         PROVE  Scanned' /\ ProductionIsClean'
    <2>1. /\ UNCHANGED row /\ pc[p] = "upload"
          /\ UNCHANGED prod \/ prod' = [prod EXCEPT ![key[p]] = buf[p]]
          /\ Goto(p, "clear") \/ NotPromoted(p)
      BY <1>14 DEF Upload, dbVars
    <2>2. buf[p] \in Clean
      BY <1>1, <2>1 DEF Scanned
    <2>3. ProductionIsClean'
      BY <1>1, <1>2, <2>1, <2>2 DEF ProductionIsClean, StoreType
    <2>4. Scanned'
      BY <1>1, <2>1, Elsewhere DEF NotPromoted, NextItem, Places
    <2> QED
      BY <2>3, <2>4
  <1>15. ASSUME NEW p \in Procs, RemoveProd(p) \/ WipeObject(p)
         PROVE  Scanned' /\ ProductionIsClean'
    <2>1. UNCHANGED row /\ \E k : UNCHANGED prod \/ prod' = [prod EXCEPT ![k] = Nothing]
      BY <1>15 DEF RemoveProd, WipeObject, Remove, dbVars
    <2>2. ProductionIsClean'
      BY <1>1, <1>2, <2>1 DEF ProductionIsClean, StoreType
    <2>3. CASE RemoveProd(p)
      <3>1. Finish(p) \/ Hang(p) \/ \E w \in Places \ {"upload", "insert"} : Goto(p, w)
        BY <2>3 DEF RemoveProd, Places
      <3> QED
        BY <1>1, <2>2, <3>1, Elsewhere
    <2>4. CASE WipeObject(p)
      BY <1>1, <2>2, <2>4 DEF WipeObject, Scanned
    <2> QED
      BY <1>15, <2>3, <2>4
  <1>16. ASSUME NEW p \in Procs, DeleteRow(p) \/ WipeRows(p)
         PROVE  Scanned' /\ ProductionIsClean'
    <2>1. Finish(p) /\ UNCHANGED prod
      BY <1>16 DEF DeleteRow, WipeRows, Answer, storeVars
    <2>2. \A k \in Keys : row'[k] = row[k] \/ row'[k].id = 0
      <3>1. CASE DeleteRow(p)
        BY <1>2, <3>1 DEF DeleteRow, RowType
      <3>2. CASE WipeRows(p)
        BY <1>2, <3>2 DEF WipeRows, RowType
      <3> QED
        BY <1>16, <3>1, <3>2
    <2>3. ProductionIsClean'
      BY <1>1, <2>1, <2>2 DEF ProductionIsClean
    <2> QED
      BY <1>1, <2>1, <2>3, Elsewhere
  <1> QED
    BY <1>5, <1>6, <1>7, <1>8, <1>9, <1>10, <1>11, <1>12, <1>13, <1>14, <1>15, <1>16
       DEF Next, Proceed, Promotion, Sweeping, Deletion

\* Whatever is uploaded to a key while it is scanned, and however promotions,
\* deletions, crashes and errors overlap, production and the register only
\* ever hold contents that passed the scan (collab-document.service.ts
\* tryPromoteFromQuarantine, run-quarantine-scan.ts).
THEOREM OnlyCleanInProduction == Spec => []ProductionIsClean
  <1>1. Init => CleanInv
    <2>1. Init => Scanned /\ ProductionIsClean
      BY DEF Init, Scanned, ProductionIsClean
    <2> QED
      BY <2>1, DocumentTypedInit DEF CleanInv
  <1>2. CleanInv => ProductionIsClean
    BY DEF CleanInv
  <1> QED
    BY <1>1, <1>2, CleanStep, PTL DEF Spec

-----------------------------------------------------------------------------
(* What is deleted stays deleted.  While a key counts as removed its object *)
(* is not in production; once the answer is given with nothing surviving,   *)
(* nobody holds the content or is about to register it, and a promotion or  *)
(* a confirmation that begins later finds no object to begin with.          *)

RemovedFromProd == \A k \in Keys : fate[k] \in {"removed", "deleted"} => prod[k] = Nothing

DeletedEverywhere == \A k \in Keys : fate[k] = "deleted" => quar[k] = Nothing /\ row[k].id = 0

InNobodysHands ==
    \A q \in Procs : fate[key[q]] = "deleted" => pc[q] \notin {"scan", "upload", "insert"}

\* Only the owner's deletion selects a row, and it goes nowhere near the
\* quarantine.
FoundByOwner ==
    \A q \in Procs :
        /\ op[q] # "delete" => found[q] = 0 /\ pc[q] \notin {"select", "row"}
        /\ op[q] = "delete" => pc[q] \in {"select", "remove", "row"}

DeletedInv == RemovedFromProd /\ DeletedEverywhere /\ InNobodysHands /\ FoundByOwner

\* A procedure's step leaves what the other procedures know alone.
LEMMA OthersKeep ==
    ASSUME TypeOK, NEW p \in Procs, Start(p) \/ Proceed(p) \/ Crash(p),
           NEW q \in Procs, q # p
    PROVE  /\ op'[q] = op[q] /\ pc'[q] = pc[q] /\ key'[q] = key[q]
           /\ buf'[q] = buf[q] /\ found'[q] = found[q]
  <1>1. ProcType /\ FoundType
    BY DEF TypeOK
  <1>2. ASSUME Finish(p) \/ Hang(p) \/ \E w \in Places : Goto(p, w) \/ Leave(p, w) \/ LetGo(p, w)
        PROVE  /\ op'[q] = op[q] /\ pc'[q] = pc[q] /\ key'[q] = key[q]
               /\ buf'[q] = buf[q] /\ found'[q] = found[q]
    BY <1>1, <1>2 DEF ProcType, FoundType, Finish, Hang, Rest, Goto, Leave, LetGo
  <1>3. CASE Start(p) \/ Crash(p)
    BY <1>1, <1>3 DEF Start, Confirm, ResolveMetadata, Delete, CollabDelete, Anonymize, Begin,
                      Crash, Finish, Hang, Rest, ProcType, FoundType
  <1>4. CASE Look(p) \/ Wait(p) \/ Meta(p) \/ Find(p) \/ Scan(p) \/ Probe(p) \/ ProbeQuar(p)
             \/ IfProd(p) \/ SweepEnd(p) \/ Insert(p)
    BY <1>2, <1>4 DEF Look, Wait, Meta, Find, Scan, ScanAnswers, Probe, ProbeQuar, IfProd, SweepEnd, Insert,
                      Places, NotPromoted, NextItem
  <1>5. CASE Upload(p) \/ Clear(p) \/ Drop(p) \/ Expire(p) \/ RemoveProd(p) \/ IfQuar(p)
             \/ RemoveQuar(p) \/ DeleteRow(p) \/ WipeRows(p)
    BY <1>2, <1>5 DEF Upload, Clear, Drop, Expire, RemoveProd, IfQuar, RemoveQuar, DeleteRow,
                      WipeRows, Places, Promoted, NotPromoted, Refused, NextItem, Answer
  <1>6. CASE Get(p) \/ Sweep(p) \/ SweepItem(p) \/ Select(p) \/ ListRows(p) \/ WipeObject(p)
    BY <1>1, <1>6 DEF Get, Sweep, SweepItem, Select, ListRows, WipeObject, NotPromoted, NextItem,
                      Finish, Hang, Rest, Goto, Leave, LetGo, ProcType, FoundType
  <1> QED
    BY <1>3, <1>4, <1>5, <1>6 DEF Proceed, Promotion, Sweeping, Deletion

LEMMA SweepItemMoves ==
    ASSUME TypeOK, NEW p \in Procs, SweepItem(p)
    PROVE  /\ UNCHANGED <<op, buf, found>>
           /\ \E w \in {"next", "get", "expire"} : pc' = [pc EXCEPT ![p] = w]
           /\ pc'[p] \in {"next", "get", "expire"}
  <1>1. PICK it \in todo[p] :
            pc' = [pc EXCEPT ![p] = CASE it.age = "young" -> "next"
                                      [] it.age \in {"ripe", "undated"} -> "get"
                                      [] it.age = "old" -> "expire"]
    BY DEF SweepItem
  <1>2. it.age \in {"young", "ripe", "old", "undated"}
    BY DEF TypeOK, ProcType, Item
  <1>3. \E w \in {"next", "get", "expire"} : pc' = [pc EXCEPT ![p] = w]
    BY <1>1, <1>2
  <1>4. pc'[p] \in {"next", "get", "expire"}
    BY <1>3 DEF TypeOK, ProcType
  <1> QED
    BY <1>3, <1>4 DEF SweepItem

\* How a step of p may move p itself, as far as the deletions can tell.
Owned(p) ==
    /\ op'[p] # "delete" => found'[p] = 0 /\ pc'[p] \notin {"select", "row"}
    /\ op'[p] = "delete" => pc'[p] \in {"select", "remove", "row"}

LEMMA OwnedStep ==
    ASSUME TypeOK, FoundByOwner, NEW p \in Procs, Start(p) \/ Proceed(p) \/ Crash(p)
    PROVE  FoundByOwner'
  <1>1. ProcType /\ FoundType
    BY DEF TypeOK
  <1>2. ASSUME Finish(p) \/ Hang(p)
        PROVE  Owned(p)
    BY <1>1, <1>2 DEF Finish, Hang, Rest, Owned, ProcType, FoundType
  <1>3. ASSUME op[p] # "delete", \E w \in Places \ {"select", "row"} : Goto(p, w) \/ Leave(p, w) \/ LetGo(p, w)
        PROVE  Owned(p)
    BY <1>1, <1>3 DEF Goto, Leave, LetGo, Owned, ProcType, FoundType, FoundByOwner
  <1>4. ASSUME pc[p] \notin {"select", "remove", "row"}
        PROVE  op[p] # "delete"
    BY <1>4 DEF FoundByOwner
  <1>5. CASE Start(p)
    <2>1. PICK what \in Tasks, k \in Keys, c \in Maybe, w \in Places :
              Begin(p, what, k, c, w) /\ (what = "delete" <=> w = "select") /\ w # "row"
      <3>1. Personal \subseteq Keys /\ Contents \subseteq Maybe /\ Nothing \in Maybe
        BY DEF Keys, Maybe
      <3> QED
        BY <1>5, <3>1 DEF Start, Confirm, ResolveMetadata, Delete, CollabDelete, Anonymize,
                          Tasks, Places
    <2>2. pc[p] = "idle" /\ op[p] # "delete" /\ found[p] = 0
      BY <1>4, <2>1 DEF Begin, FoundByOwner
    <2>3. Owned(p)
      BY <1>1, <2>1, <2>2 DEF Begin, Owned, ProcType, FoundType
    <2> QED
      BY <1>5, <2>3, OthersKeep DEF FoundByOwner, Owned
  <1>6. ASSUME Proceed(p) \/ Crash(p)
        PROVE  Owned(p)
    <2>1. CASE Look(p) \/ Wait(p) \/ Meta(p) \/ Find(p) \/ Scan(p) \/ Probe(p) \/ ProbeQuar(p)
               \/ IfProd(p) \/ SweepEnd(p) \/ Insert(p) \/ Crash(p)
      <3>1. Finish(p) \/ Hang(p) \/ (op[p] # "delete" /\ \E w \in Places \ {"select", "row"} : Goto(p, w) \/ Leave(p, w) \/ LetGo(p, w))
        BY <1>4, <2>1 DEF Look, Wait, Meta, Find, Scan, ScanAnswers, Probe, ProbeQuar, IfProd, SweepEnd,
                          Insert, Crash, Places, NotPromoted, NextItem
      <3> QED
        BY <1>2, <1>3, <3>1
    <2>2. CASE Upload(p) \/ Clear(p) \/ Drop(p) \/ Expire(p) \/ IfQuar(p)
               \/ RemoveQuar(p) \/ DeleteRow(p) \/ WipeRows(p)
      <3>1. Finish(p) \/ Hang(p) \/ (op[p] # "delete" /\ \E w \in Places \ {"select", "row"} : Goto(p, w) \/ Leave(p, w) \/ LetGo(p, w))
        BY <1>4, <2>2 DEF Upload, Clear, Drop, Expire, IfQuar, RemoveQuar, DeleteRow,
                          WipeRows, Places, Promoted, NotPromoted, Refused, NextItem, Answer
      <3> QED
        BY <1>2, <1>3, <3>1
    <2>3. CASE RemoveProd(p)
      <3>1. CASE Finish(p)
        BY <1>2, <3>1
      <3>2. CASE Goto(p, IF op[p] = "delete" THEN "row" ELSE "ifQuar")
        BY <1>1, <3>2 DEF Goto, Owned, ProcType, FoundByOwner
      <3> QED
        BY <2>3, <3>1, <3>2 DEF RemoveProd
    <2>4. CASE Get(p)
      <3>1. op[p] # "delete"
        BY <1>4, <2>4 DEF Get
      <3>2. CASE NotPromoted(p)
        BY <1>3, <3>1, <3>2 DEF NotPromoted, NextItem, Places
      <3>3. CASE UNCHANGED <<op, found>> /\ pc' = [pc EXCEPT ![p] = "scan"]
        BY <1>1, <3>1, <3>3 DEF Owned, FoundByOwner, ProcType
      <3> QED
        BY <2>4, <3>2, <3>3 DEF Get
    <2>5. CASE Sweep(p) \/ SweepItem(p) \/ WipeObject(p)
      <3>1. op'[p] # "delete" /\ found'[p] = found[p] /\ op[p] # "delete"
            /\ pc'[p] \notin {"select", "row"}
        <4>1. op[p] # "delete"
          BY <1>4, <2>5 DEF Sweep, SweepItem, WipeObject
        <4>2. CASE Sweep(p) \/ WipeObject(p)
          BY <1>1, <4>1, <4>2 DEF Sweep, WipeObject, ProcType, FoundByOwner
        <4>3. CASE SweepItem(p)
          BY <4>1, <4>3, SweepItemMoves
        <4> QED
          BY <2>5, <4>2, <4>3
      <3> QED
        BY <3>1 DEF Owned, FoundByOwner
    <2>6. CASE ListRows(p)
      <3>1. op[p] # "delete"
        BY <1>4, <2>6 DEF ListRows
      <3>2. Finish(p) \/ (UNCHANGED <<op, found>> /\ pc' = [pc EXCEPT ![p] = "wipe"])
        BY <2>6 DEF ListRows
      <3> QED
        BY <1>1, <1>2, <3>1, <3>2 DEF Owned, FoundByOwner, ProcType
    <2>7. CASE Select(p)
      BY <1>1, <1>2, <2>7 DEF Select, Owned, ProcType, FoundByOwner
    <2> QED
      BY <1>6, <2>1, <2>2, <2>3, <2>4, <2>5, <2>6, <2>7 DEF Proceed, Promotion, Sweeping, Deletion
  <1> QED
    BY <1>5, <1>6, OthersKeep DEF FoundByOwner, Owned

\* What the properties of a key say once p has moved and nothing else has.
LEMMA HandsStep ==
    ASSUME TypeOK, InNobodysHands, NEW p \in Procs, Proceed(p) \/ Start(p) \/ Crash(p),
           UNCHANGED fate,
           pc'[p] \in {"scan", "upload", "insert"} =>
               key'[p] = key[p] /\ fate[key[p]] # "deleted"
    PROVE  InNobodysHands'
  <1>1. ASSUME NEW q \in Procs, q # p
        PROVE  pc'[q] = pc[q] /\ key'[q] = key[q]
    BY <1>1, OthersKeep
  <1> QED
    BY <1>1 DEF InNobodysHands

\* The same when the step gives up, restores or answers for the key of p.
LEMMA HandsFateStep ==
    ASSUME TypeOK, InNobodysHands, NEW p \in Procs, Proceed(p),
           Clearing(key[p]) \/ Restore(key[p]) \/ fate' = [fate EXCEPT ![key[p]] = "removed"],
           pc'[p] \notin {"scan", "upload", "insert"}
    PROVE  InNobodysHands'
  <1>1. ASSUME NEW q \in Procs, q # p
        PROVE  pc'[q] = pc[q] /\ key'[q] = key[q]
    BY <1>1, OthersKeep
  <1>2. fate \in [Keys -> Fates] /\ key \in [Procs -> Keys]
    BY DEF TypeOK, ClientType, ProcType
  <1>3. \A k \in Keys : fate'[k] = "deleted" => fate[k] = "deleted"
    BY <1>2 DEF Clearing, Restore
  <1> QED
    BY <1>1, <1>2, <1>3 DEF InNobodysHands

\* A procedure has given its answer: nothing survives if the key is deleted.
LEMMA AnswerStep ==
    ASSUME TypeOK, TypeOK', DeletedInv, NEW p \in Procs, Proceed(p), Answer(p),
           UNCHANGED prod,
           \A k \in Keys : quar'[k] \in {quar[k], Nothing},
           \A k \in Keys : row'[k] = row[k] \/ row'[k].id = 0,
           row[key[p]].id \in {0, found[p]} => row'[key[p]].id = 0
    PROVE  RemovedFromProd' /\ DeletedEverywhere' /\ InNobodysHands'
  <1>1. fate \in [Keys -> Fates] /\ key \in [Procs -> Keys] /\ key[p] \in Keys
        /\ pc \in [Procs -> Places] /\ fate' \in [Keys -> Fates]
    BY DEF TypeOK, ClientType, ProcType
  <1>2. \A k \in Keys \ {key[p]} : fate'[k] = fate[k]
    BY <1>1 DEF Answer
  <1>3. fate'[key[p]] \in {"deleted", "answered"}
        /\ (fate'[key[p]] = "deleted" => fate[key[p]] = "removed" /\ ~Survives(p))
    BY <1>1 DEF Answer
  <1>4. RemovedFromProd'
    BY <1>1, <1>2, <1>3 DEF RemovedFromProd, DeletedInv
  <1>5. DeletedEverywhere'
    <2>1. ASSUME NEW k \in Keys, fate'[k] = "deleted", k # key[p]
          PROVE  quar'[k] = Nothing /\ row'[k].id = 0
      BY <1>2, <2>1 DEF DeletedInv, DeletedEverywhere
    <2>2. ASSUME fate'[key[p]] = "deleted"
          PROVE  quar'[key[p]] = Nothing /\ row'[key[p]].id = 0
      BY <1>3, <2>2 DEF Survives
    <2> QED
      BY <2>1, <2>2 DEF DeletedEverywhere
  <1>6. InNobodysHands'
    <2>1. pc'[p] = "idle"
      BY <1>1 DEF Answer, Finish, Hang, Rest
    <2>2. ASSUME NEW q \in Procs, q # p, fate'[key'[q]] = "deleted"
          PROVE  pc'[q] \notin {"scan", "upload", "insert"}
      <3>1. pc'[q] = pc[q] /\ key'[q] = key[q]
        BY <2>2, OthersKeep
      <3>2. CASE key[q] = key[p]
        BY <1>3, <2>2, <3>1, <3>2 DEF Survives
      <3>3. CASE key[q] # key[p]
        BY <1>1, <1>2, <2>2, <3>1, <3>3 DEF InNobodysHands, DeletedInv
      <3> QED
        BY <3>2, <3>3
    <2> QED
      BY <2>1, <2>2 DEF InNobodysHands
  <1> QED
    BY <1>4, <1>5, <1>6

LEMMA DeletedStep == TypeOK /\ DeletedInv /\ [Next]_vars => DeletedInv'
  <1> SUFFICES ASSUME TypeOK, DeletedInv, [Next]_vars
               PROVE  DeletedInv'
    OBVIOUS
  <1>1. TypeOK' /\ StoreType /\ RowType /\ ProcType /\ ClientType /\ FoundType
    BY DocumentTypedStep DEF TypeOK
  <1>2. RemovedFromProd /\ DeletedEverywhere /\ InNobodysHands /\ FoundByOwner
    BY DEF DeletedInv
  <1>3. ASSUME UNCHANGED <<storeVars, row, fate>>
        PROVE  RemovedFromProd' /\ DeletedEverywhere'
    BY <1>2, <1>3 DEF RemovedFromProd, DeletedEverywhere, storeVars
  <1>4. ASSUME UNCHANGED <<procVars, fate>>
        PROVE  InNobodysHands' /\ FoundByOwner'
    BY <1>2, <1>4 DEF InNobodysHands, FoundByOwner, procVars
  <1>5. CASE UNCHANGED vars
    BY <1>3, <1>4, <1>5 DEF vars, dbVars, DeletedInv
  <1>6. ASSUME NEW k \in Keys, Client(k)
        PROVE  DeletedInv'
    <2>1. CASE OpenPar(k) \/ ClosePar(k) \/ Age(k)
      BY <1>3, <1>4, <2>1 DEF OpenPar, PersonalUrl, SharedUrl, ClosePar, Age, dbVars, DeletedInv
    <2>2. CASE \E c \in Contents : Put(k, c)
      <3>1. \A j \in Keys : fate'[j] = IF j = k THEN "kept" ELSE fate[j]
        BY <1>1, <2>2 DEF Put, ClientType
      <3>2. \A j \in Keys \ {k} : quar'[j] = quar[j]
        BY <1>1, <2>2 DEF Put, StoreType
      <3>3. UNCHANGED <<prod, dbVars, procVars>>
        BY <2>2 DEF Put
      <3>4. key \in [Procs -> Keys]
        BY <1>1 DEF ProcType
      <3>5. RemovedFromProd' /\ DeletedEverywhere'
        BY <1>2, <3>1, <3>2, <3>3 DEF RemovedFromProd, DeletedEverywhere, dbVars
      <3>6. InNobodysHands' /\ FoundByOwner'
        BY <1>2, <3>1, <3>3, <3>4 DEF InNobodysHands, FoundByOwner, procVars
      <3> QED
        BY <3>5, <3>6 DEF DeletedInv
    <2> QED
      BY <1>6, <2>1, <2>2 DEF Client
  <1>7. ASSUME NEW p \in Procs, Start(p) \/ Crash(p)
        PROVE  DeletedInv'
    <2>1. UNCHANGED <<storeVars, dbVars, fate>>
      BY <1>7 DEF Start, Confirm, ResolveMetadata, Delete, CollabDelete, Anonymize, Begin, Crash
    <2>2. pc'[p] \in {"idle", "look", "select", "probe", "list"}
      BY <1>1, <1>7 DEF Start, Confirm, ResolveMetadata, Delete, CollabDelete, Anonymize, Begin,
                        Crash, Finish, Hang, Rest, ProcType
    <2>3. InNobodysHands' /\ FoundByOwner'
      BY <1>2, <1>7, <2>1, <2>2, HandsStep, OwnedStep
    <2> QED
      BY <1>3, <2>1, <2>3 DEF DeletedInv, dbVars
  <1>8. ASSUME NEW p \in Procs, Proceed(p)
        PROVE  RemovedFromProd' /\ DeletedEverywhere' /\ InNobodysHands'
    <2> DEFINE k == key[p]
    <2>1. k \in Keys /\ fate \in [Keys -> Fates]
      BY <1>1 DEF ProcType, ClientType
    <2>2. \* The steps that read.
          CASE \/ Look(p) \/ Wait(p) \/ Meta(p) \/ Find(p) \/ Get(p) \/ Scan(p)
               \/ Probe(p) \/ ProbeQuar(p) \/ IfProd(p) \/ SweepEnd(p) \/ Select(p)
               \/ ListRows(p) \/ Sweep(p) \/ SweepItem(p)
      <3>1. UNCHANGED <<storeVars, dbVars, fate>>
        BY <2>2 DEF Look, Wait, Meta, Find, Get, Scan, ScanAnswers, Probe, ProbeQuar, IfProd, SweepEnd, Select,
                    ListRows, Sweep, SweepItem
      <3>2. pc'[p] \in {"scan", "upload", "insert"} => key'[p] = k /\ fate[k] # "deleted"
        <4>1. CASE Get(p)
          BY <1>1, <1>2, <2>1, <4>1 DEF Get, NotPromoted, NextItem, Leave, LetGo, ProcType, DeletedEverywhere
        <4>2. CASE Scan(p)
          BY <1>1, <1>2, <4>2 DEF Scan, ScanAnswers, Goto, Finish, Hang, Rest, NotPromoted,
                                        NextItem, Leave, LetGo, ProcType, InNobodysHands
        <4>3. CASE Meta(p)
          BY <1>1, <1>2, <2>1, <4>3 DEF Meta, Goto, Finish, Hang, Rest, ProcType, RemovedFromProd
        <4>4. CASE SweepItem(p)
          BY <4>4, SweepItemMoves
        <4>5. CASE Look(p) \/ Wait(p) \/ Find(p)
          BY <1>1, <4>5 DEF Look, Wait, Find, Goto, Finish, Hang, Rest, Leave, LetGo, NotPromoted, NextItem, ProcType
        <4>6. CASE Probe(p) \/ ProbeQuar(p) \/ IfProd(p) \/ SweepEnd(p) \/ Select(p)
                   \/ ListRows(p) \/ Sweep(p)
          BY <1>1, <4>6 DEF Probe, ProbeQuar, IfProd, SweepEnd, Select, ListRows, Sweep, Goto,
                            Finish, Hang, Rest, ProcType
        <4> QED
          BY <2>2, <4>1, <4>2, <4>3, <4>4, <4>5, <4>6
      <3> QED
        BY <1>2, <1>3, <1>8, <3>1, <3>2, HandsStep DEF dbVars
    <2>3. CASE Insert(p)
      <3>1. pc[p] = "insert" /\ fate[k] # "deleted" /\ UNCHANGED storeVars
        BY <1>2, <2>3 DEF Insert, InNobodysHands
      <3>2. (UNCHANGED fate \/ Restore(k)) /\ pc'[p] = "idle"
        BY <1>1, <2>3 DEF Insert, Finish, Hang, Rest, ProcType
      <3>3. \A j \in Keys \ {k} : row'[j] = row[j] /\ fate'[j] = fate[j]
        BY <1>1, <2>1, <2>3 DEF Insert, Restore, RowType, dbVars
      <3>4. fate'[k] # "deleted" /\ (fate'[k] = "removed" => fate[k] = "removed")
        BY <2>1, <3>1, <3>2 DEF Restore
      <3>5. RemovedFromProd' /\ DeletedEverywhere'
        BY <1>2, <3>1, <3>3, <3>4 DEF RemovedFromProd, DeletedEverywhere, storeVars
      <3> QED
        BY <1>2, <1>8, <3>2, <3>5, HandsStep, HandsFateStep
    <2>4. CASE Upload(p)
      <3>1. pc[p] = "upload" /\ fate[k] # "deleted" /\ UNCHANGED <<quar, dbVars>>
        BY <1>2, <2>4 DEF Upload, InNobodysHands
      <3>2. pc'[p] \in {"clear", "next", "wait"}
        BY <1>1, <2>4 DEF Upload, Goto, NotPromoted, NextItem, Leave, LetGo, ProcType
      <3>3. UNCHANGED <<prod, fate>> \/ (Restore(k) /\ prod' = [prod EXCEPT ![k] = buf[p]])
        BY <2>4 DEF Upload
      <3>4. RemovedFromProd' /\ DeletedEverywhere'
        BY <1>1, <1>2, <2>1, <3>1, <3>3 DEF RemovedFromProd, DeletedEverywhere, Restore, StoreType, dbVars
      <3> QED
        BY <1>2, <1>8, <3>2, <3>3, <3>4, HandsStep, HandsFateStep
    <2>5. CASE Clear(p) \/ Drop(p)
      <3>1. UNCHANGED <<prod, dbVars, fate>> /\ \A j \in Keys : quar'[j] \in {quar[j], Nothing}
        BY <1>1, <2>5 DEF Clear, Drop, Remove, StoreType
      <3>2. pc'[p] \in {"next", "meta", "wait", "idle"}
        BY <1>1, <2>5 DEF Clear, Drop, Promoted, NotPromoted, Refused, NextItem, Leave, LetGo, Finish, Hang, Rest, ProcType
      <3>3. RemovedFromProd' /\ DeletedEverywhere'
        BY <1>2, <3>1 DEF RemovedFromProd, DeletedEverywhere, dbVars
      <3> QED
        BY <1>2, <1>8, <3>1, <3>2, <3>3, HandsStep
    <2>6. CASE Expire(p)
      <3>1. UNCHANGED <<prod, dbVars>> /\ \A j \in Keys : quar'[j] \in {quar[j], Nothing}
        BY <1>1, <2>6 DEF Expire, Remove, StoreType
      <3>2. (UNCHANGED fate \/ Clearing(k)) /\ pc'[p] \in {"next", "idle"}
        BY <1>1, <2>6 DEF Expire, NextItem, Leave, LetGo, Finish, Hang, Rest, ProcType
      <3>3. \A j \in Keys : fate'[j] \in {"removed", "deleted"} => fate'[j] = fate[j]
        BY <2>1, <3>2 DEF Clearing
      <3>4. RemovedFromProd' /\ DeletedEverywhere'
        BY <1>2, <3>1, <3>3 DEF RemovedFromProd, DeletedEverywhere, dbVars
      <3> QED
        BY <1>2, <1>8, <3>2, <3>4, HandsStep, HandsFateStep
    <2>7. CASE RemoveProd(p)
      <3>1. UNCHANGED <<quar, dbVars>> /\ pc'[p] \in {"idle", "row", "ifQuar"}
        BY <1>1, <2>7 DEF RemoveProd, Goto, Finish, Hang, Rest, ProcType
      <3>2. \/ UNCHANGED <<prod, fate>>
            \/ prod' = [prod EXCEPT ![k] = Nothing] /\ fate' = [fate EXCEPT ![k] = "removed"]
        BY <2>7 DEF RemoveProd, Remove
      <3>3. RemovedFromProd' /\ DeletedEverywhere'
        BY <1>1, <1>2, <2>1, <3>1, <3>2 DEF RemovedFromProd, DeletedEverywhere, StoreType, dbVars
      <3> QED
        BY <1>2, <1>8, <3>1, <3>2, <3>3, HandsStep, HandsFateStep
    <2>8. CASE IfQuar(p)
      <3>1. CASE UNCHANGED fate /\ Goto(p, "removeQuar")
        <4>1. pc'[p] = "removeQuar" /\ UNCHANGED <<storeVars, dbVars>>
          BY <1>1, <2>8, <3>1 DEF IfQuar, Goto, ProcType
        <4> QED
          BY <1>2, <1>3, <1>8, <3>1, <4>1, HandsStep DEF dbVars
      <3>2. CASE Answer(p)
        <4>1. UNCHANGED <<storeVars, dbVars>> /\ pc[p] = "ifQuar"
          BY <2>8 DEF IfQuar
        <4>2. found[p] = 0
          BY <1>2, <4>1 DEF FoundByOwner
        <4> QED
          BY <1>1, <1>8, <3>2, <4>1, <4>2, AnswerStep DEF storeVars, dbVars
      <3> QED
        BY <2>8, <3>1, <3>2 DEF IfQuar
    <2>9. CASE RemoveQuar(p)
      <3>1. UNCHANGED <<prod, dbVars>> /\ pc[p] = "removeQuar"
            /\ \A j \in Keys : quar'[j] \in {quar[j], Nothing}
        BY <1>1, <2>9 DEF RemoveQuar, Remove, StoreType
      <3>2. CASE Answer(p)
        <4>1. found[p] = 0
          BY <1>2, <3>1 DEF FoundByOwner
        <4> QED
          BY <1>1, <1>8, <3>1, <3>2, <4>1, AnswerStep DEF dbVars
      <3>3. CASE (UNCHANGED fate \/ Clearing(k)) /\ Finish(p)
        <4>1. \A j \in Keys : fate'[j] \in {"removed", "deleted"} => fate'[j] = fate[j]
          BY <2>1, <3>3 DEF Clearing
        <4>2. RemovedFromProd' /\ DeletedEverywhere'
          BY <1>2, <3>1, <4>1 DEF RemovedFromProd, DeletedEverywhere, dbVars
        <4>3. pc'[p] = "idle"
          BY <1>1, <3>3 DEF Finish, Hang, Rest, ProcType
        <4> QED
          BY <1>2, <1>8, <3>3, <4>2, <4>3, HandsStep, HandsFateStep
      <3> QED
        BY <2>9, <3>2, <3>3 DEF RemoveQuar
    <2>10. CASE DeleteRow(p)
      <3>1. /\ UNCHANGED storeVars
            /\ \A j \in Keys : row'[j] = row[j] \/ row'[j].id = 0
        BY <1>1, <2>10 DEF DeleteRow, RowType
      <3>2. CASE UNCHANGED fate /\ Finish(p)
        <4>1. RemovedFromProd' /\ DeletedEverywhere'
          BY <1>2, <3>1, <3>2 DEF RemovedFromProd, DeletedEverywhere, storeVars
        <4>2. pc'[p] = "idle"
          BY <1>1, <3>2 DEF Finish, Hang, Rest, ProcType
        <4> QED
          BY <1>2, <1>8, <3>2, <4>1, <4>2, HandsStep
      <3>3. CASE /\ row' = IF row[k].id = found[p]
                             THEN [row EXCEPT ![k] = [id |-> 0, size |-> Nothing]] ELSE row
                 /\ Answer(p)
        <4>1. row[k].id \in {0, found[p]} => row'[k].id = 0
          BY <1>1, <2>1, <3>3 DEF RowType
        <4> QED
          BY <1>1, <1>8, <3>1, <3>3, <4>1, AnswerStep DEF storeVars
      <3> QED
        BY <2>10, <3>2, <3>3 DEF DeleteRow
    <2>11. CASE WipeRows(p)
      <3>1. /\ UNCHANGED <<storeVars, fate>> /\ pc'[p] = "idle"
            /\ \A j \in Keys : row'[j] = row[j] \/ row'[j].id = 0
        BY <1>1, <2>11 DEF WipeRows, RowType, Finish, Hang, Rest, ProcType
      <3>2. RemovedFromProd' /\ DeletedEverywhere'
        BY <1>2, <3>1 DEF RemovedFromProd, DeletedEverywhere, storeVars
      <3> QED
        BY <1>2, <1>8, <3>1, <3>2, HandsStep
    <2>12. CASE WipeObject(p)
      <3>1. PICK it \in todo[p] :
                \/ UNCHANGED <<prod, fate>>
                \/ /\ prod' = [prod EXCEPT ![it.key] = Nothing]
                   /\ fate' = [fate EXCEPT ![it.key] = "removed"]
        BY <2>12 DEF WipeObject, Remove
      <3>2. UNCHANGED <<quar, dbVars, pc, key>>
        BY <2>12 DEF WipeObject
      <3>3. \A j \in Keys : fate'[j] = "deleted" => fate[j] = "deleted"
        BY <2>1, <3>1
      <3>4. RemovedFromProd' /\ DeletedEverywhere'
        BY <1>1, <1>2, <3>1, <3>2, <3>3 DEF RemovedFromProd, DeletedEverywhere, StoreType, ClientType, dbVars
      <3>5. InNobodysHands'
        BY <1>1, <1>2, <3>2, <3>3 DEF InNobodysHands, ProcType
      <3> QED
        BY <3>4, <3>5
    <2> QED
      BY <1>8, <2>2, <2>3, <2>4, <2>5, <2>6, <2>7, <2>8, <2>9, <2>10, <2>11, <2>12
         DEF Proceed, Promotion, Sweeping, Deletion
  <1>9. ASSUME NEW p \in Procs, Proceed(p)
        PROVE  DeletedInv'
    BY <1>2, <1>8, <1>9, OwnedStep DEF DeletedInv
  <1> QED
    BY <1>5, <1>6, <1>7, <1>9 DEF Next

\* Once a deletion has answered with nothing of the document left in anybody's
\* hands, neither its object nor its row comes back before the next upload,
\* whoever promotes, confirms, sweeps or deletes and whatever fails
\* (document.service.ts deleteDocument, collab-document.service.ts
\* deleteDocumentForCollabCommand).
THEOREM DeletionsLast == Spec => []DeletionLasts
  <1>1. Init => TypeOK /\ DeletedInv
    <2>1. Init => DeletedInv
      BY AnyKeyIsAKey DEF Init, DeletedInv, RemovedFromProd, DeletedEverywhere, InNobodysHands, FoundByOwner
    <2> QED
      BY <2>1, DocumentTypedInit
  <1>2. TypeOK /\ DeletedInv /\ [Next]_vars => TypeOK' /\ DeletedInv'
    BY DocumentTypedStep, DeletedStep
  <1>3. DeletedInv => DeletionLasts
    BY DEF DeletedInv, RemovedFromProd, DeletedEverywhere, DeletionLasts
  <1> QED
    BY <1>1, <1>2, <1>3, PTL DEF Spec

-----------------------------------------------------------------------------
(* A clean upload is not lost.  As long as a key was uploaded to once, the  *)
(* object in quarantine and every copy downloaded from it are that upload,  *)
(* and whoever is about to clear the quarantine has put it in production.   *)

Once(k, c) == sent[k] = <<c>>

QuarantinedAsSent ==
    \A k \in Keys :
        /\ sent[k] = <<>> => quar[k] = Nothing
        /\ \A c \in Contents : Once(k, c) => quar[k] \in {c, Nothing}

InHandAsSent ==
    \A p \in Procs : pc[p] \in {"scan", "upload", "drop", "clear"} =>
        /\ sent[key[p]] # <<>>
        /\ \A c \in Contents : Once(key[p], c) =>
               /\ pc[p] # "clear" => buf[p] = c
               /\ pc[p] = "clear" /\ fate[key[p]] = "kept" => prod[key[p]] = c

OnlyRejectedDropped == \A p \in Procs : pc[p] = "drop" => buf[p] \in Rejected

KeptInv == QuarantinedAsSent /\ InHandAsSent /\ OnlyRejectedDropped /\ UploadKept

LEMMA AppendOnce ==
    ASSUME NEW S, NEW s \in Seq(S), NEW c \in S, NEW d \in S, Append(s, c) = <<d>>
    PROVE  s = <<>> /\ c = d
  <1>1. Len(Append(s, c)) = Len(s) + 1 /\ Append(s, c)[Len(s) + 1] = c
    BY AppendProperties
  <1>2. Len(<<d>>) = 1 /\ <<d>>[1] = d
    OBVIOUS
  <1>3. Len(s) = 0
    <2>1. Len(s) \in Nat
      BY LenProperties
    <2> QED
      BY <1>1, <1>2, <2>1
  <1>4. c = d
    BY <1>1, <1>2, <1>3
  <1> QED
    BY <1>3, <1>4, EmptySeq

\* A step of p keeps uploads when p takes nothing out of quarantine that is
\* not in production, nothing out of production unrecorded, and has in hand
\* only what was sent.
LEMMA KeptByStep ==
    ASSUME TypeOK, KeptInv, NEW p \in Procs, Start(p) \/ Proceed(p) \/ Crash(p),
           UNCHANGED sent,
           \A j \in Keys : fate'[j] = "kept" =>
               /\ fate[j] = "kept"
               /\ \A c \in Contents : Once(j, c) /\ prod[j] = c => prod'[j] = c,
           \A j \in Keys :
               \/ quar'[j] = quar[j]
               \/ /\ quar'[j] = Nothing
                  /\ fate'[j] = "kept" => \A c \in Clean : Once(j, c) => prod'[j] = c,
           pc'[p] \in {"scan", "upload", "drop", "clear"} =>
               /\ key'[p] = key[p] /\ sent[key[p]] # <<>>
               /\ \A c \in Contents : Once(key[p], c) =>
                      /\ pc'[p] # "clear" => buf'[p] = c
                      /\ pc'[p] = "clear" /\ fate'[key[p]] = "kept" => prod'[key[p]] = c,
           pc'[p] = "drop" => buf'[p] \in Rejected
    PROVE  KeptInv'
  <1>1. QuarantinedAsSent'
    BY DEF KeptInv, QuarantinedAsSent, Once
  <1>2. key \in [Procs -> Keys] /\ Clean \subseteq Contents
    BY DEF TypeOK, ProcType, Contents
  <1>3. ASSUME NEW q \in Procs, q # p
        PROVE  pc'[q] = pc[q] /\ key'[q] = key[q] /\ buf'[q] = buf[q]
    BY <1>3, OthersKeep
  <1>4. InHandAsSent'
    <2>1. ASSUME NEW q \in Procs, q # p, pc'[q] \in {"scan", "upload", "drop", "clear"}
          PROVE  /\ sent'[key'[q]] # <<>>
                 /\ \A c \in Contents : Once(key[q], c) =>
                        /\ pc'[q] # "clear" => buf'[q] = c
                        /\ pc'[q] = "clear" /\ fate'[key'[q]] = "kept" => prod'[key'[q]] = c
      BY <1>2, <1>3, <2>1 DEF KeptInv, InHandAsSent
    <2> QED
      BY <1>3, <2>1 DEF InHandAsSent, Once
  <1>5. OnlyRejectedDropped'
    BY <1>3 DEF KeptInv, OnlyRejectedDropped
  <1>6. UploadKept'
    <2>1. ASSUME NEW k \in Keys, NEW c \in Clean, Once(k, c), fate'[k] = "kept"
          PROVE  c \in {quar'[k], prod'[k]}
      <3>1. c \in {quar[k], prod[k]}
        BY <2>1 DEF KeptInv, UploadKept, Once
      <3> QED
        BY <1>2, <2>1, <3>1
    <2> QED
      BY <2>1 DEF UploadKept, Once
  <1> QED
    BY <1>1, <1>4, <1>5, <1>6 DEF KeptInv

LEMMA KeptByClient ==
    ASSUME TypeOK, KeptInv, NEW k \in Keys, Client(k)
    PROVE  KeptInv'
  <1>1. StoreType /\ ClientType /\ ProcType
    BY DEF TypeOK
  <1>2. CASE OpenPar(k) \/ ClosePar(k) \/ Age(k)
    BY <1>2 DEF OpenPar, PersonalUrl, SharedUrl, ClosePar, Age, storeVars, procVars, KeptInv,
                QuarantinedAsSent, InHandAsSent, OnlyRejectedDropped, UploadKept, Once
  <1>3. ASSUME NEW c \in Contents, Put(k, c)
        PROVE  KeptInv'
    <2>1. /\ quar' = [quar EXCEPT ![k] = c] /\ sent' = [sent EXCEPT ![k] = Append(@, c)]
          /\ fate' = [fate EXCEPT ![k] = "kept"] /\ UNCHANGED <<prod, procVars>>
      BY <1>3 DEF Put
    <2>2. sent'[k] = Append(sent[k], c) /\ sent[k] \in Seq(Contents) /\ quar'[k] = c
          /\ fate'[k] = "kept"
      BY <1>1, <2>1 DEF ClientType, StoreType
    <2>3. \A j \in Keys \ {k} : sent'[j] = sent[j] /\ quar'[j] = quar[j] /\ fate'[j] = fate[j]
      BY <1>1, <2>1 DEF ClientType, StoreType
    <2>4. sent'[k] # <<>>
      BY <2>2, AppendProperties
    <2>5. \A d \in Contents : sent'[k] = <<d>> => sent[k] = <<>> /\ d = c
      <3>1. ASSUME NEW d \in Contents, sent'[k] = <<d>>
            PROVE  sent[k] = <<>> /\ d = c
        <4>1. Append(sent[k], c) = <<d>>
          BY <2>2, <3>1
        <4>2. sent[k] = <<>> /\ c = d
          BY <2>2, <4>1, AppendOnce
        <4> QED
          BY <4>2
      <3> QED
        BY <3>1
    <2>6. QuarantinedAsSent'
      BY <2>2, <2>3, <2>4, <2>5 DEF KeptInv, QuarantinedAsSent, Once
    <2>7. InHandAsSent'
      <3>1. ASSUME NEW p \in Procs, pc'[p] \in {"scan", "upload", "drop", "clear"}
            PROVE  /\ sent'[key'[p]] # <<>>
                   /\ \A d \in Contents : sent'[key'[p]] = <<d>> =>
                          /\ pc'[p] # "clear" => buf'[p] = d
                          /\ pc'[p] = "clear" /\ fate'[key'[p]] = "kept" => prod'[key'[p]] = d
        <4>1. key[p] \in Keys /\ key'[p] = key[p] /\ pc'[p] = pc[p] /\ buf'[p] = buf[p] /\ prod' = prod
          BY <1>1, <2>1 DEF procVars, ProcType
        <4>2. sent[key[p]] # <<>>
          BY <3>1, <4>1 DEF KeptInv, InHandAsSent
        <4>3. CASE key[p] = k
          BY <2>4, <2>5, <4>1, <4>2, <4>3
        <4>4. CASE key[p] # k
          BY <2>3, <3>1, <4>1, <4>2, <4>4 DEF KeptInv, InHandAsSent, Once
        <4> QED
          BY <4>3, <4>4
      <3> QED
        BY <3>1 DEF InHandAsSent, Once
    <2>8. OnlyRejectedDropped'
      BY <2>1 DEF KeptInv, OnlyRejectedDropped, procVars
    <2>9. UploadKept'
      <3>1. ASSUME NEW j \in Keys, NEW d \in Clean, sent'[j] = <<d>>, fate'[j] = "kept"
            PROVE  d \in {quar'[j], prod'[j]}
        <4>1. CASE j = k
          BY <2>2, <2>5, <3>1, <4>1 DEF Contents
        <4>2. CASE j # k
          BY <2>1, <2>3, <3>1, <4>2 DEF KeptInv, UploadKept
        <4> QED
          BY <4>1, <4>2
      <3> QED
        BY <3>1 DEF UploadKept
    <2> QED
      BY <2>6, <2>7, <2>8, <2>9 DEF KeptInv
  <1> QED
    BY <1>2, <1>3 DEF Client

LEMMA KeptStep == TypeOK /\ KeptInv /\ [Next]_vars => KeptInv'
  <1> SUFFICES ASSUME TypeOK, KeptInv, [Next]_vars
               PROVE  KeptInv'
    OBVIOUS
  <1>1. StoreType /\ ClientType /\ ProcType
    BY DEF TypeOK
  <1>2. QuarantinedAsSent /\ InHandAsSent /\ OnlyRejectedDropped
    BY DEF KeptInv
  <1>3. CASE UNCHANGED vars
    BY <1>3 DEF vars, storeVars, procVars, cliVars, KeptInv,
                QuarantinedAsSent, InHandAsSent, OnlyRejectedDropped, UploadKept, Once
  <1>4. ASSUME NEW p \in Procs, Start(p) \/ Crash(p)
        PROVE  KeptInv'
    <2>1. UNCHANGED <<storeVars, sent, fate>>
      BY <1>4 DEF Start, Confirm, ResolveMetadata, Delete, CollabDelete, Anonymize, Begin, Crash, cliVars
    <2>2. pc'[p] \in {"idle", "look", "select", "probe", "list"}
      BY <1>1, <1>4 DEF Start, Confirm, ResolveMetadata, Delete, CollabDelete, Anonymize, Begin,
                        Crash, Finish, Hang, Rest, ProcType
    <2> QED
      BY <1>4, <2>1, <2>2, KeptByStep DEF storeVars
  <1>5. ASSUME NEW p \in Procs, Proceed(p)
        PROVE  KeptInv'
    <2> DEFINE k == key[p]
    <2>1. k \in Keys /\ fate \in [Keys -> Fates] /\ Clean \subseteq Contents
      BY <1>1 DEF ProcType, ClientType, Contents
    <2>2. CASE \/ Look(p) \/ Wait(p) \/ Meta(p) \/ Find(p) \/ Get(p) \/ Scan(p)
               \/ Probe(p) \/ ProbeQuar(p) \/ IfProd(p) \/ SweepEnd(p) \/ Select(p)
               \/ ListRows(p) \/ Sweep(p) \/ SweepItem(p)
      <3>1. UNCHANGED <<storeVars, sent, fate>>
        BY <2>2 DEF Look, Wait, Meta, Find, Get, Scan, ScanAnswers, Probe, ProbeQuar, IfProd, SweepEnd, Select,
                    ListRows, Sweep, SweepItem, cliVars
      <3>2. /\ pc'[p] \in {"scan", "upload", "drop", "clear"} =>
                 /\ key'[p] = k /\ sent[k] # <<>> /\ pc'[p] # "clear"
                 /\ \A c \in Contents : Once(k, c) => buf'[p] = c
            /\ pc'[p] = "drop" => buf'[p] \in Rejected
        <4>1. CASE Get(p)
          <5>1. CASE NotPromoted(p)
            BY <1>1, <5>1 DEF NotPromoted, NextItem, Leave, LetGo, ProcType
          <5>2. CASE /\ quar[k] # Nothing /\ buf' = [buf EXCEPT ![p] = quar[k]]
                     /\ pc' = [pc EXCEPT ![p] = "scan"] /\ UNCHANGED key
            BY <1>1, <1>2, <2>1, <5>2 DEF ProcType, QuarantinedAsSent
          <5> QED
            BY <4>1, <5>1, <5>2 DEF Get
        <4>2. CASE Scan(p)
          BY <1>1, <1>2, <4>2 DEF Scan, ScanAnswers, Goto, Finish, Hang, Rest, NotPromoted,
                                        NextItem, Leave, LetGo, ProcType, InHandAsSent
        <4>3. CASE Meta(p) \/ Look(p) \/ Wait(p) \/ Find(p)
          BY <1>1, <4>3 DEF Meta, Look, Wait, Find, Goto, Finish, Hang, Rest, Leave, LetGo, NotPromoted, NextItem, ProcType
        <4>4. CASE SweepItem(p)
          BY <4>4, SweepItemMoves
        <4>5. CASE Probe(p) \/ ProbeQuar(p) \/ IfProd(p) \/ SweepEnd(p) \/ Select(p)
                   \/ ListRows(p) \/ Sweep(p)
          BY <1>1, <4>5 DEF Probe, ProbeQuar, IfProd, SweepEnd, Select, ListRows, Sweep, Goto,
                            Finish, Hang, Rest, ProcType
        <4> QED
          BY <2>2, <4>1, <4>2, <4>3, <4>4, <4>5
      <3> QED
        BY <1>5, <3>1, <3>2, KeptByStep DEF storeVars
    <2>3. CASE Insert(p)
      <3>1. UNCHANGED <<storeVars, sent>> /\ (UNCHANGED fate \/ Restore(k)) /\ pc'[p] = "idle"
        BY <1>1, <2>3 DEF Insert, Finish, Hang, Rest, ProcType, cliVars
      <3>2. \A j \in Keys : fate'[j] = "kept" => fate[j] = "kept"
        BY <2>1, <3>1 DEF Restore
      <3> QED
        BY <1>5, <3>1, <3>2, KeptByStep DEF storeVars
    <2>4. CASE Upload(p)
      <3>1. pc[p] = "upload" /\ UNCHANGED <<quar, sent>>
        BY <2>4 DEF Upload, cliVars
      <3>2. sent[k] # <<>> /\ \A c \in Contents : Once(k, c) => buf[p] = c
        BY <1>2, <3>1 DEF InHandAsSent
      <3>3. CASE Restore(k) /\ prod' = [prod EXCEPT ![k] = buf[p]]
        <4>1. \A j \in Keys : fate'[j] = "kept" => fate[j] = "kept"
          BY <2>1, <3>3 DEF Restore
        <4>2. prod'[k] = buf[p] /\ \A j \in Keys \ {k} : prod'[j] = prod[j]
          BY <1>1, <2>1, <3>3 DEF StoreType
        <4>3. CASE Goto(p, "clear")
          <5>1. pc'[p] = "clear" /\ key'[p] = k
            BY <1>1, <4>3 DEF Goto, ProcType
          <5> QED
            BY <1>5, <3>1, <3>2, <4>1, <4>2, <5>1, KeptByStep
        <4>4. CASE NotPromoted(p)
          <5>1. pc'[p] \in {"next", "wait"}
            BY <1>1, <4>4 DEF NotPromoted, NextItem, Leave, LetGo, ProcType
          <5> QED
            BY <1>5, <3>1, <3>2, <4>1, <4>2, <5>1, KeptByStep
        <4> QED
          BY <2>4, <4>3, <4>4 DEF Upload
      <3>4. CASE UNCHANGED <<prod, fate>> /\ NotPromoted(p)
        <4>1. pc'[p] \in {"next", "wait"}
          BY <1>1, <3>4 DEF NotPromoted, NextItem, Leave, LetGo, ProcType
        <4> QED
          BY <1>5, <3>1, <3>4, <4>1, KeptByStep
      <3> QED
        BY <2>4, <3>3, <3>4 DEF Upload
    <2>5. CASE Clear(p) \/ Drop(p)
      <3>1. UNCHANGED <<prod, sent, fate>> /\ pc'[p] \in {"next", "meta", "wait", "idle"}
        BY <1>1, <2>5 DEF Clear, Drop, Promoted, NotPromoted, Refused, NextItem, Leave, LetGo, Finish, Hang, Rest,
                          ProcType, cliVars
      <3>2. \A j \in Keys : quar'[j] = quar[j] \/ (j = k /\ quar'[j] = Nothing)
        BY <1>1, <2>5 DEF Clear, Drop, Remove, StoreType
      <3>3. fate[k] = "kept" => \A c \in Clean : Once(k, c) => prod[k] = c
        <4>1. CASE Clear(p)
          BY <1>2, <2>1, <4>1 DEF Clear, InHandAsSent
        <4>2. CASE Drop(p)
          <5>1. \A c \in Clean : ~Once(k, c)
            BY <1>2, <2>1, <4>2, DocumentConstantsOK
               DEF Drop, InHandAsSent, OnlyRejectedDropped, DocumentConstantsOK
          <5> QED
            BY <5>1
        <4> QED
          BY <2>5, <4>1, <4>2
      <3> QED
        BY <1>5, <3>1, <3>2, <3>3, KeptByStep
    <2>6. CASE Expire(p)
      <3>1. UNCHANGED <<prod, sent>> /\ pc'[p] \in {"next", "idle"}
        BY <1>1, <2>6 DEF Expire, NextItem, Leave, LetGo, Finish, Hang, Rest, ProcType, cliVars
      <3>2. UNCHANGED <<quar, fate>> \/ (quar' = [quar EXCEPT ![k] = Nothing] /\ Clearing(k))
        BY <2>6 DEF Expire, Remove
      <3>3. \A j \in Keys :
                /\ fate'[j] = "kept" => fate[j] = "kept"
                /\ quar'[j] = quar[j] \/ (quar'[j] = Nothing /\ fate'[j] # "kept")
        BY <1>1, <2>1, <3>2 DEF Clearing, StoreType
      <3> QED
        BY <1>5, <3>1, <3>3, KeptByStep
    <2>7. CASE RemoveProd(p)
      <3>1. UNCHANGED <<quar, sent>> /\ pc'[p] \in {"idle", "row", "ifQuar"}
        BY <1>1, <2>7 DEF RemoveProd, Goto, Finish, Hang, Rest, ProcType, cliVars
      <3>2. \/ UNCHANGED <<prod, fate>>
            \/ prod' = [prod EXCEPT ![k] = Nothing] /\ fate' = [fate EXCEPT ![k] = "removed"]
        BY <2>7 DEF RemoveProd, Remove
      <3>3. \A j \in Keys : fate'[j] = "kept" => fate[j] = "kept" /\ prod'[j] = prod[j]
        BY <1>1, <2>1, <3>2 DEF StoreType
      <3> QED
        BY <1>5, <3>1, <3>3, KeptByStep
    <2>8. CASE IfQuar(p) \/ RemoveQuar(p) \/ DeleteRow(p)
      <3>1. UNCHANGED <<prod, sent>> /\ pc'[p] \in {"idle", "removeQuar"}
        BY <1>1, <2>8 DEF IfQuar, RemoveQuar, DeleteRow, Answer, Goto, Finish, Hang, Rest, ProcType, cliVars, storeVars
      <3>2. \/ UNCHANGED <<quar, fate>>
            \/ (UNCHANGED quar \/ quar' = [quar EXCEPT ![k] = Nothing]) /\ (Clearing(k) \/ Answer(p))
        BY <2>8 DEF IfQuar, RemoveQuar, DeleteRow, Remove, storeVars
      <3>3. \A j \in Keys :
                /\ fate'[j] = "kept" => fate[j] = "kept"
                /\ quar'[j] = quar[j] \/ (quar'[j] = Nothing /\ fate'[j] # "kept")
        BY <1>1, <2>1, <3>2 DEF Clearing, Answer, StoreType
      <3> QED
        BY <1>5, <3>1, <3>3, KeptByStep
    <2>9. CASE WipeRows(p)
      <3>1. UNCHANGED <<storeVars, sent, fate>> /\ pc'[p] = "idle"
        BY <1>1, <2>9 DEF WipeRows, Finish, Hang, Rest, ProcType, cliVars
      <3> QED
        BY <1>5, <3>1, KeptByStep DEF storeVars
    <2>10. CASE WipeObject(p)
      <3>1. PICK it \in todo[p] :
                \/ UNCHANGED <<prod, fate>>
                \/ /\ prod' = [prod EXCEPT ![it.key] = Nothing]
                   /\ fate' = [fate EXCEPT ![it.key] = "removed"]
        BY <2>10 DEF WipeObject, Remove
      <3>2. UNCHANGED <<quar, sent, pc, key, buf>> /\ pc[p] = "wipe"
        BY <2>10 DEF WipeObject, cliVars
      <3>3. \A j \in Keys : fate'[j] = "kept" => fate[j] = "kept" /\ prod'[j] = prod[j]
        BY <1>1, <2>1, <3>1 DEF StoreType
      <3> QED
        BY <1>5, <3>2, <3>3, KeptByStep
    <2> QED
      BY <1>5, <2>2, <2>3, <2>4, <2>5, <2>6, <2>7, <2>8, <2>9, <2>10
         DEF Proceed, Promotion, Sweeping, Deletion
  <1> QED
    BY <1>3, <1>4, <1>5, KeptByClient DEF Next

\* A clean document that was uploaded once is in quarantine or in production
\* until somebody removes it or it grows too old, however many promotions of
\* it overlap and wherever they fail or die (collab-document.service.ts
\* tryPromoteFromQuarantine, run-quarantine-scan.ts).
THEOREM UploadsAreKept == Spec => []UploadKept
  <1>1. Init => TypeOK /\ KeptInv
    <2>1. Init => KeptInv
      <3> SUFFICES ASSUME Init
                   PROVE  KeptInv
        OBVIOUS
      <3>1. \A k \in Keys, c \in Contents : sent[k] # <<c>>
        BY DEF Init
      <3>2. Clean \subseteq Contents
        BY DEF Contents
      <3> QED
        BY <3>1, <3>2 DEF Init, KeptInv, QuarantinedAsSent, InHandAsSent, OnlyRejectedDropped,
                          UploadKept, Once
    <2> QED
      BY <2>1, DocumentTypedInit
  <1>2. TypeOK /\ KeptInv /\ [Next]_vars => TypeOK' /\ KeptInv'
    BY DocumentTypedStep, KeptStep
  <1>3. KeptInv => UploadKept
    BY DEF KeptInv
  <1> QED
    BY <1>1, <1>2, <1>3, PTL DEF Spec
-----------------------------------------------------------------------------
(* A registered document has its object.  What is registered was seen in    *)
(* production, and only a removal takes it out again; until that removal    *)
(* has dropped the row it is at its row, unless it died or failed.          *)

\* Which procedures come by where: only confirmations register, only sweeps
\* walk through a page, and collaboration deletes no personal key.
Kind(p) ==
    /\ op[p] = "confirm" => key[p] \in Personal
    /\ op[p] = "collabDelete" => key[p] \in Shared
    /\ p \in Sweepers => op[p] \in {"none", "sweep"}
    /\ pc[p] \in {"next", "expire"} => p \in Sweepers
    /\ pc[p] = "insert" => op[p] = "confirm"
    /\ pc[p] \in {"probe", "probeQuar", "ifProd"} => op[p] = "collabDelete"
    /\ pc[p] = "remove" => op[p] \in {"delete", "collabDelete"}

Kinds == \A p \in Procs : Kind(p)

SharedUnregistered == \A k \in Shared : row[k].id = 0

\* Nothing comes of a key nobody has uploaded to.
UnsentIsNowhere ==
    \A k \in Keys : Len(sent[k]) = 0 =>
        /\ quar[k] = Nothing /\ prod[k] = Nothing /\ row[k].id = 0
        /\ \A p \in Procs : key[p] = k => pc[p] \notin {"scan", "upload", "insert"}

RegistersWhatIsThere ==
    \A p \in Procs :
        /\ pc[p] = "insert" /\ Len(sent[key[p]]) = 1
        /\ fate[key[p]] \in {"kept", "cleared"}
        => prod[key[p]] # Nothing

\* A removal is at the row of the key, or at the rows of its user.
RemovalGoesOn(k) == \E p \in Procs : pc[p] = "wipe" \/ (pc[p] = "row" /\ key[p] = k)

RowExplained(k) ==
    row[k].id # 0 /\ prod[k] = Nothing /\ Len(sent[k]) = 1 =>
        \/ fate[k] \in {"restored", "answered"}
        \/ fate[k] = "removed" /\ (faults + crashes > 0 \/ RemovalGoesOn(k))

RowInv ==
    /\ Kinds /\ SharedUnregistered /\ UnsentIsNowhere /\ RegistersWhatIsThere
    /\ \A k \in Keys : RowExplained(k)

LEMMA KindStep ==
    ASSUME TypeOK, Kinds, FoundByOwner, NEW p \in Procs, Start(p) \/ Proceed(p) \/ Crash(p)
    PROVE  Kinds'
  <1> SUFFICES Kind(p)'
    <2>1. ASSUME NEW q \in Procs, q # p
          PROVE  Kind(q)'
      BY <2>1, OthersKeep DEF Kinds, Kind
    <2> QED
      BY <2>1 DEF Kinds
  <1>1. ProcType
    BY DEF TypeOK
  <1>2. ASSUME Finish(p) \/ Hang(p)
        PROVE  Kind(p)'
    BY <1>1, <1>2 DEF Finish, Hang, Rest, Kind, ProcType
  <1>3. ASSUME \E w \in Places \ {"next", "expire", "insert", "probe", "probeQuar", "ifProd", "remove"} :
                   Goto(p, w) \/ Leave(p, w)
        PROVE  Kind(p)'
    BY <1>1, <1>3 DEF Goto, Leave, Kind, Kinds, ProcType
  <1>4. ASSUME NextItem(p), p \in Sweepers
        PROVE  Kind(p)'
    BY <1>1, <1>4 DEF NextItem, Leave, LetGo, Kind, Kinds, ProcType
  <1>5. ASSUME Promoted(p) \/ NotPromoted(p) \/ Refused(p)
        PROVE  Kind(p)'
    BY <1>2, <1>3, <1>4, <1>5 DEF Promoted, NotPromoted, Refused, Places
  <1>6. CASE Start(p)
    BY <1>1, <1>6, DocumentConstantsOK
       DEF Start, Confirm, ResolveMetadata, Delete, CollabDelete, Anonymize, Begin, Kind,
           DocumentConstantsOK, ProcType
  <1>7. CASE Look(p) \/ Wait(p) \/ SweepEnd(p) \/ Insert(p) \/ Find(p) \/ Scan(p) \/ Crash(p)
    BY <1>2, <1>3, <1>5, <1>7 DEF Look, Wait, SweepEnd, Insert, Find, Scan, ScanAnswers, Crash, Places
  <1>8. CASE Upload(p) \/ Clear(p) \/ Drop(p)
    BY <1>2, <1>3, <1>5, <1>8 DEF Upload, Clear, Drop, Places
  <1>9. CASE IfQuar(p) \/ RemoveQuar(p) \/ DeleteRow(p) \/ WipeRows(p) \/ RemoveProd(p)
    BY <1>2, <1>3, <1>9 DEF IfQuar, RemoveQuar, DeleteRow, WipeRows, RemoveProd, Answer, Places
  <1>10. CASE Expire(p)
    <2>1. pc[p] = "expire" /\ (NextItem(p) \/ Finish(p))
      BY <1>10 DEF Expire
    <2> QED
      BY <1>2, <1>4, <2>1 DEF Kinds, Kind
  <1>11. CASE Meta(p)
    <2>1. CASE Goto(p, "insert") /\ op[p] = "confirm"
      BY <1>1, <2>1 DEF Goto, Kind, Kinds, ProcType
    <2>2. CASE Finish(p) \/ Goto(p, "wait")
      BY <1>2, <1>3, <2>2 DEF Places
    <2> QED
      BY <1>11, <2>1, <2>2 DEF Meta
  <1>12. CASE Probe(p) \/ ProbeQuar(p) \/ IfProd(p)
    <2>1. op[p] = "collabDelete"
      BY <1>12 DEF Probe, ProbeQuar, IfProd, Kinds, Kind
    <2>2. Finish(p) \/ \E w \in {"probeQuar", "ifProd", "remove", "ifQuar"} : Goto(p, w)
      BY <1>12 DEF Probe, ProbeQuar, IfProd
    <2> QED
      BY <1>1, <1>2, <2>1, <2>2 DEF Goto, Kind, Kinds, ProcType
  <1>13. CASE Get(p)
    <2>1. CASE NotPromoted(p)
      BY <1>5, <2>1
    <2>2. CASE UNCHANGED <<op, key>> /\ pc' = [pc EXCEPT ![p] = "scan"]
      BY <1>1, <2>2 DEF Kind, Kinds, ProcType
    <2> QED
      BY <1>13, <2>1, <2>2 DEF Get
  <1>14. CASE Sweep(p)
    BY <1>1, <1>14 DEF Sweep, Kind, Kinds, ProcType
  <1>15. CASE SweepItem(p)
    <2>1. op' = op /\ pc'[p] \in {"next", "get", "expire"} /\ p \in Sweepers
      BY <1>15, SweepItemMoves DEF SweepItem, Kinds, Kind
    <2> QED
      BY <2>1 DEF Kinds, Kind
  <1>16. CASE Select(p) \/ ListRows(p) \/ WipeObject(p)
    <2>1. CASE Finish(p)
      BY <1>2, <2>1
    <2>2. CASE /\ UNCHANGED <<op, key>>
               /\ \/ op[p] = "delete" /\ pc' = [pc EXCEPT ![p] = "remove"]
                  \/ pc' = [pc EXCEPT ![p] = "wipe"]
                  \/ UNCHANGED pc
      BY <1>1, <2>2 DEF Kind, Kinds, ProcType
    <2> QED
      BY <1>16, <2>1, <2>2 DEF Select, ListRows, WipeObject, FoundByOwner
  <1> QED
    BY <1>6, <1>7, <1>8, <1>9, <1>10, <1>11, <1>12, <1>13, <1>14, <1>15, <1>16
       DEF Proceed, Promotion, Sweeping, Deletion
Spent == faults' + crashes' > 0

LEMMA SpentStays ==
    ASSUME TypeOK, UNCHANGED envVars \/ Fault \/ (crashes' = crashes + 1 /\ UNCHANGED faults)
    PROVE  /\ faults + crashes > 0 => Spent
           /\ Fault => Spent
           /\ crashes' = crashes + 1 => Spent
  <1>1. PICK e \in Nat, f \in Nat : e = crashes /\ f = faults
    BY DocumentConstantsOK DEF TypeOK, BoundType, DocumentConstantsOK
  <1>2. /\ UNCHANGED envVars => crashes' = e /\ faults' = f
        /\ Fault => crashes' = e /\ faults' = f + 1
        /\ crashes' = crashes + 1 /\ UNCHANGED faults => crashes' = e + 1 /\ faults' = f
    BY <1>1 DEF envVars, Fault
  <1>3. PICK g \in Nat, h \in Nat : g = crashes' /\ h = faults'
    BY <1>1, <1>2
  <1>4. (g = e /\ h = f) \/ (g = e /\ h = f + 1) \/ (g = e + 1 /\ h = f)
    BY <1>2, <1>3
  <1>5. (Fault => h = f + 1) /\ (crashes' = crashes + 1 => g = e + 1)
    BY <1>1, <1>2, <1>3
  <1>6. f + e > 0 => h + g > 0
    BY <1>4
  <1>7. h = f + 1 \/ g = e + 1 => h + g > 0
    BY <1>4
  <1> QED
    BY <1>1, <1>3, <1>5, <1>6, <1>7, Zenon DEF Spent

\* A procedure that is at no row takes no removal away.
LEMMA RemovalStays ==
    ASSUME TypeOK, NEW p \in Procs, Start(p) \/ Proceed(p) \/ Crash(p), NEW k,
           pc[p] = "wipe" => pc'[p] = "wipe",
           pc[p] = "row" => key[p] # k
    PROVE  RemovalGoesOn(k) => RemovalGoesOn(k)'
  BY OthersKeep DEF RemovalGoesOn

\* What a step of p must do to keep the invariant.
LEMMA RowByStep ==
    ASSUME TypeOK, TypeOK', RowInv, Kinds',
           NEW p \in Procs, Start(p) \/ Proceed(p) \/ Crash(p),
           UNCHANGED sent,
           faults + crashes > 0 => Spent,
           \A j \in Keys : quar'[j] \in {quar[j], Nothing},
           \A j \in Keys :
               \/ prod'[j] = prod[j]
               \/ prod'[j] = Nothing /\ fate'[j] = "removed"
               \/ prod'[j] # Nothing /\ pc[p] = "upload" /\ key[p] = j,
           \A j \in Keys : row'[j] = row[j] \/ row'[j].id = 0 \/ (pc[p] = "insert" /\ key[p] = j),
           \A j \in Keys : fate'[j] \in {"kept", "cleared"} => fate[j] \in {"kept", "cleared"},
           pc'[p] \in {"scan", "upload", "insert"} =>
               key'[p] = key[p] /\ Len(sent[key[p]]) # 0,
           pc'[p] = "insert" => prod'[key[p]] # Nothing,
           \A j \in Keys :
               \/ row'[j].id = 0 \/ prod'[j] # Nothing
               \/ fate'[j] \in {"restored", "answered"}
               \/ fate'[j] = "removed" /\ (Spent \/ RemovalGoesOn(j)')
               \/ /\ row'[j] = row[j] /\ prod'[j] = prod[j]
                  /\ fate'[j] = fate[j] \/ fate[j] = "kept"
                  /\ RemovalGoesOn(j) => Spent \/ RemovalGoesOn(j)'
    PROVE  RowInv'
  <1>1. key \in [Procs -> Keys] /\ key' \in [Procs -> Keys]
        /\ Personal \cap Shared = {} /\ Shared \subseteq Keys
    BY DocumentConstantsOK DEF TypeOK, ProcType, DocumentConstantsOK, Keys
  <1>2. ASSUME NEW q \in Procs, q # p
        PROVE  pc'[q] = pc[q] /\ key'[q] = key[q]
    BY <1>2, OthersKeep
  <1>3. SharedUnregistered'
    BY <1>1 DEF RowInv, SharedUnregistered, Kinds, Kind
  <1>4. UnsentIsNowhere'
    <2>1. ASSUME NEW k \in Keys, Len(sent[k]) = 0
          PROVE  /\ quar'[k] = Nothing /\ prod'[k] = Nothing /\ row'[k].id = 0
                 /\ \A q \in Procs : key'[q] = k => pc'[q] \notin {"scan", "upload", "insert"}
      <3>1. /\ quar[k] = Nothing /\ prod[k] = Nothing /\ row[k].id = 0
            /\ \A q \in Procs : key[q] = k => pc[q] \notin {"scan", "upload", "insert"}
        BY <2>1 DEF RowInv, UnsentIsNowhere
      <3>2. quar'[k] = Nothing /\ prod'[k] = Nothing /\ row'[k].id = 0
        BY <3>1
      <3>3. ASSUME NEW q \in Procs, key'[q] = k
            PROVE  pc'[q] \notin {"scan", "upload", "insert"}
        BY <1>2, <2>1, <3>1, <3>3
      <3> QED
        BY <3>2, <3>3
    <2> QED
      BY <2>1 DEF UnsentIsNowhere
  <1>5. RegistersWhatIsThere'
    <2>1. ASSUME NEW q \in Procs, pc'[q] = "insert", Len(sent[key'[q]]) = 1,
                 fate'[key'[q]] \in {"kept", "cleared"}
          PROVE  prod'[key'[q]] # Nothing
      <3>1. CASE q = p
        BY <2>1, <3>1
      <3>2. CASE q # p
        <4>1. pc[q] = "insert" /\ key'[q] = key[q] /\ key[q] \in Keys
          BY <1>1, <1>2, <2>1, <3>2
        <4>2. prod[key[q]] # Nothing
          BY <2>1, <4>1 DEF RowInv, RegistersWhatIsThere
        <4> QED
          BY <2>1, <4>1, <4>2
      <3> QED
        BY <3>1, <3>2
    <2> QED
      BY <2>1 DEF RegistersWhatIsThere
  <1>6. ASSUME NEW j \in Keys
        PROVE  RowExplained(j)'
    <2> SUFFICES ASSUME row'[j].id # 0, prod'[j] = Nothing, Len(sent[j]) = 1
                 PROVE  \/ fate'[j] \in {"restored", "answered"}
                        \/ fate'[j] = "removed" /\ (Spent \/ RemovalGoesOn(j)')
      BY DEF RowExplained, Spent
    <2>1. CASE /\ row'[j] = row[j] /\ prod'[j] = prod[j]
               /\ fate'[j] = fate[j] \/ fate[j] = "kept"
               /\ RemovalGoesOn(j) => Spent \/ RemovalGoesOn(j)'
      BY <2>1 DEF RowInv, RowExplained
    <2> QED
      BY <2>1
  <1> QED
    BY <1>3, <1>4, <1>5, <1>6 DEF RowInv
\* A step that writes neither production nor rows and is at no row.
LEMMA RowByReading ==
    ASSUME TypeOK, TypeOK', RowInv, Kinds',
           NEW p \in Procs, Start(p) \/ Proceed(p) \/ Crash(p),
           UNCHANGED <<prod, row, sent>>, UNCHANGED envVars \/ Fault,
           UNCHANGED fate \/ Clearing(key[p]) \/ Restore(key[p]),
           \A j \in Keys : quar'[j] \in {quar[j], Nothing},
           pc[p] # "row", pc[p] = "wipe" => pc'[p] = "wipe",
           pc'[p] \in {"scan", "upload", "insert"} =>
               key'[p] = key[p] /\ Len(sent[key[p]]) # 0,
           pc'[p] = "insert" => prod'[key[p]] # Nothing
    PROVE  RowInv'
  <1>1. fate \in [Keys -> Fates] /\ key[p] \in Keys
    BY DEF TypeOK, ClientType, ProcType
  <1>2. \A j \in Keys :
            \/ fate'[j] = fate[j] \/ fate[j] = "kept"
            \/ fate'[j] = "restored"
    BY <1>1 DEF Clearing, Restore
  <1>3. \A j \in Keys : fate'[j] \in {"kept", "cleared"} => fate[j] \in {"kept", "cleared"}
    BY <1>1 DEF Clearing, Restore
  <1>4. \A j \in Keys : RemovalGoesOn(j) => RemovalGoesOn(j)'
    BY RemovalStays
  <1>5. faults + crashes > 0 => Spent
    BY SpentStays
  <1> QED
    BY <1>2, <1>3, <1>4, <1>5, RowByStep

\* The same of a step that answers for a deletion.
LEMMA RowByAnswer ==
    ASSUME TypeOK, TypeOK', RowInv, Kinds', DeletedInv', NEW p \in Procs, Proceed(p),
           Answer(p), UNCHANGED <<prod, sent>>, UNCHANGED envVars \/ Fault,
           \A j \in Keys : quar'[j] \in {quar[j], Nothing},
           \A j \in Keys : row'[j] = row[j] \/ row'[j].id = 0,
           pc[p] \in {"row", "ifQuar", "removeQuar"}
    PROVE  RowInv'
  <1>1. fate \in [Keys -> Fates] /\ key[p] \in Keys /\ pc \in [Procs -> Places]
    BY DEF TypeOK, ClientType, ProcType
  <1>2. /\ fate'[key[p]] \in {"deleted", "answered"}
        /\ \A j \in Keys \ {key[p]} : fate'[j] = fate[j]
        /\ pc'[p] = "idle"
    BY <1>1 DEF Answer, Finish, Hang, Rest
  <1>3. \A j \in Keys : fate'[j] = "deleted" => row'[j].id = 0
    BY DEF DeletedInv, DeletedEverywhere
  <1>4. \A j \in Keys \ {key[p]} : RemovalGoesOn(j) => RemovalGoesOn(j)'
    BY RemovalStays
  <1>5. faults + crashes > 0 => Spent
    BY SpentStays
  <1>6. \A j \in Keys : fate'[j] \in {"kept", "cleared"} => fate[j] \in {"kept", "cleared"}
    BY <1>2
  <1>7. \A j \in Keys :
            \/ row'[j].id = 0
            \/ fate'[j] \in {"restored", "answered"}
            \/ /\ row'[j] = row[j] /\ prod'[j] = prod[j]
               /\ fate'[j] = fate[j] \/ fate[j] = "kept"
               /\ RemovalGoesOn(j) => Spent \/ RemovalGoesOn(j)'
    BY <1>2, <1>3, <1>4
  <1> QED
    BY <1>2, <1>5, <1>6, <1>7, RowByStep

RowContext == TypeOK /\ CleanInv /\ DeletedInv /\ RowInv

LEMMA RowReadingStep ==
    ASSUME RowContext, TypeOK', Kinds', NEW p \in Procs,
           \/ Start(p) \/ Look(p) \/ Wait(p) \/ Meta(p) \/ Find(p) \/ Get(p) \/ Scan(p)
           \/ Clear(p) \/ Drop(p) \/ Expire(p) \/ Probe(p) \/ ProbeQuar(p) \/ IfProd(p)
           \/ SweepEnd(p) \/ Select(p) \/ ListRows(p) \/ Sweep(p) \/ SweepItem(p)
    PROVE  RowInv'
  <1>1. StoreType /\ RowType /\ ProcType /\ ClientType /\ TypeOK /\ RowInv
    BY DEF RowContext, TypeOK
  <1>2. Start(p) \/ Proceed(p)
    BY DEF Proceed, Promotion, Sweeping, Deletion
  <1>3. CASE Start(p)
    <2>1. /\ UNCHANGED <<storeVars, row, sent, fate, envVars>>
          /\ pc[p] = "idle" /\ pc'[p] \in {"look", "select", "probe", "list"}
      BY <1>1, <1>3 DEF Start, Confirm, ResolveMetadata, Delete, CollabDelete, Anonymize, Begin,
                        ProcType, dbVars, cliVars
    <2> QED
      BY <1>1, <1>2, <2>1, RowByReading DEF storeVars
  <1>4. CASE Meta(p)
    <2>1. /\ UNCHANGED <<storeVars, row, sent, fate>> /\ (UNCHANGED envVars \/ Fault)
          /\ pc[p] = "meta" /\ pc'[p] \in {"insert", "wait", "idle"}
          /\ pc'[p] = "insert" => key'[p] = key[p] /\ prod[key[p]] # Nothing
      BY <1>1, <1>4 DEF Meta, Goto, Finish, Hang, Rest, ProcType, dbVars, cliVars
    <2>2. pc'[p] = "insert" => Len(sent[key[p]]) # 0
      BY <1>1, <2>1 DEF RowInv, UnsentIsNowhere, ProcType
    <2> QED
      BY <1>1, <1>2, <2>1, <2>2, RowByReading DEF storeVars
  <1>5. CASE Get(p)
    <2>1. /\ UNCHANGED <<storeVars, row, sent, fate>> /\ (UNCHANGED envVars \/ Fault)
          /\ pc[p] = "get" /\ pc'[p] \in {"scan", "next", "wait"}
          /\ pc'[p] = "scan" => key'[p] = key[p] /\ quar[key[p]] # Nothing
      BY <1>1, <1>5 DEF Get, NotPromoted, NextItem, Leave, LetGo, ProcType, dbVars, cliVars
    <2>2. pc'[p] = "scan" => Len(sent[key[p]]) # 0
      BY <1>1, <2>1 DEF RowInv, UnsentIsNowhere, ProcType
    <2> QED
      BY <1>1, <1>2, <2>1, <2>2, RowByReading DEF storeVars
  <1>6. CASE Scan(p)
    <2>1. /\ UNCHANGED <<storeVars, row, sent, fate, envVars>>
          /\ pc[p] = "scan" /\ pc'[p] \in {"upload", "drop", "next", "wait", "idle", "hung"}
          /\ key'[p] = key[p] \/ pc'[p] \notin {"upload", "drop"}
      BY <1>1, <1>6 DEF Scan, ScanAnswers, Goto, Finish, Hang, Rest, NotPromoted, NextItem, Leave, LetGo,
                        ProcType, dbVars, cliVars
    <2>2. Len(sent[key[p]]) # 0
      BY <1>1, <2>1 DEF RowInv, UnsentIsNowhere, ProcType
    <2> QED
      BY <1>1, <1>2, <2>1, <2>2, RowByReading DEF storeVars
  <1>7. CASE Clear(p) \/ Drop(p) \/ Expire(p)
    <2>1. /\ UNCHANGED <<prod, row, sent>> /\ (UNCHANGED envVars \/ Fault)
          /\ UNCHANGED fate \/ Clearing(key[p])
          /\ pc[p] \in {"clear", "drop", "expire"}
      BY <1>7 DEF Clear, Drop, Expire, dbVars, cliVars
    <2>2. \A j \in Keys : quar'[j] \in {quar[j], Nothing}
      BY <1>1, <1>7 DEF Clear, Drop, Expire, Remove, StoreType
    <2>3. pc'[p] \in {"next", "meta", "wait", "idle"}
      BY <1>1, <1>7 DEF Clear, Drop, Expire, Promoted, NotPromoted, Refused, NextItem, Leave, LetGo,
                        Finish, Hang, Rest, ProcType
    <2> QED
      BY <1>1, <1>2, <2>1, <2>2, <2>3, RowByReading
  <1>8. CASE Look(p) \/ Wait(p) \/ Find(p) \/ Probe(p) \/ ProbeQuar(p) \/ IfProd(p) \/ SweepEnd(p)
    <2>1. /\ UNCHANGED <<storeVars, row, sent, fate>> /\ (UNCHANGED envVars \/ Fault)
          /\ pc[p] \notin {"row", "wipe"}
      BY <1>8 DEF Look, Wait, Find, Probe, ProbeQuar, IfProd, SweepEnd, dbVars, cliVars
    <2>2. pc'[p] \notin {"scan", "upload", "insert"}
      BY <1>1, <1>8 DEF Look, Wait, Find, Probe, ProbeQuar, IfProd, SweepEnd, Goto, Finish, Hang, Rest,
                        NotPromoted, NextItem, Leave, LetGo, ProcType
    <2> QED
      BY <1>1, <1>2, <2>1, <2>2, RowByReading DEF storeVars
  <1>9. CASE Select(p) \/ ListRows(p) \/ Sweep(p) \/ SweepItem(p)
    <2>1. /\ UNCHANGED <<storeVars, row, sent, fate, envVars>>
          /\ pc[p] \notin {"row", "wipe"}
      BY <1>9 DEF Select, ListRows, Sweep, SweepItem, dbVars, cliVars
    <2>2. pc'[p] \notin {"scan", "upload", "insert"}
      <3>1. CASE SweepItem(p)
        BY <1>1, <3>1, SweepItemMoves
      <3>2. CASE Select(p) \/ ListRows(p) \/ Sweep(p)
        BY <1>1, <3>2 DEF Select, ListRows, Sweep, Finish, Hang, Rest, ProcType
      <3> QED
        BY <1>9, <3>1, <3>2
    <2> QED
      BY <1>1, <1>2, <2>1, <2>2, RowByReading DEF storeVars
  <1> QED
    BY <1>3, <1>4, <1>5, <1>6, <1>7, <1>8, <1>9

LEMMA RowWritingStep ==
    ASSUME RowContext, TypeOK', DeletedInv', Kinds', NEW p \in Procs,
           \/ Insert(p) \/ Upload(p) \/ RemoveProd(p) \/ IfQuar(p) \/ RemoveQuar(p)
           \/ DeleteRow(p) \/ WipeObject(p) \/ WipeRows(p) \/ Crash(p)
    PROVE  RowInv'
  <1>1. StoreType /\ RowType /\ ProcType /\ ClientType /\ TypeOK /\ RowInv /\ DeletedInv
    BY DEF RowContext, TypeOK
  <1>2. Proceed(p) \/ Crash(p)
    BY DEF Proceed, Promotion, Sweeping, Deletion
  <1>3. PICK k \in Keys : k = key[p]
    BY <1>1 DEF ProcType
  <1>4. CASE Insert(p)
    <2>1. /\ UNCHANGED <<storeVars, sent>> /\ (UNCHANGED envVars \/ Fault)
          /\ pc[p] = "insert" /\ pc'[p] = "idle"
          /\ \/ UNCHANGED <<row, fate>>
             \/ Restore(k) /\ \E r : row' = [row EXCEPT ![k] = r]
      BY <1>1, <1>3, <1>4 DEF Insert, Finish, Hang, Rest, ProcType, dbVars, cliVars
    <2>2. CASE UNCHANGED <<row, fate>>
      BY <1>1, <1>2, <2>1, <2>2, RowByReading DEF storeVars
    <2>3. CASE Restore(k) /\ \E r : row' = [row EXCEPT ![k] = r]
      <3>1. \A j \in Keys \ {k} : row'[j] = row[j] /\ fate'[j] = fate[j]
        BY <1>1, <2>3 DEF Restore, RowType, ClientType
      <3>2. fate'[k] = IF fate[k] = "removed" THEN "restored" ELSE fate[k]
        BY <1>1, <2>3 DEF Restore, ClientType
      <3>3. fate[k] # "deleted" /\ fate[k] \in Fates
        BY <1>1, <1>3, <2>1 DEF DeletedInv, InNobodysHands, ClientType
      <3>4. Len(sent[k]) = 1 /\ fate[k] \in {"kept", "cleared"} => prod[k] # Nothing
        BY <1>1, <1>3, <2>1 DEF RowInv, RegistersWhatIsThere
      <3>5. \A j \in Keys : RemovalGoesOn(j) => RemovalGoesOn(j)'
        BY <1>1, <1>2, <2>1, RemovalStays
      <3>6. faults + crashes > 0 => Spent
        BY <1>1, <2>1, SpentStays
      <3>7. SharedUnregistered' /\ UnsentIsNowhere' /\ RegistersWhatIsThere'
        <4>1. k \in Personal /\ Personal \cap Shared = {} /\ Shared \subseteq Keys
          BY <1>1, <1>3, <2>1, DocumentConstantsOK DEF RowInv, Kinds, Kind, DocumentConstantsOK, Keys
        <4>2. Len(sent[k]) # 0
          BY <1>1, <1>3, <2>1 DEF RowInv, UnsentIsNowhere
        <4>3. ASSUME NEW q \in Procs, q # p
              PROVE  pc'[q] = pc[q] /\ key'[q] = key[q]
          BY <1>2, <1>1, <4>3, OthersKeep
        <4>4. key \in [Procs -> Keys] /\ key' \in [Procs -> Keys]
          BY <1>1 DEF ProcType, TypeOK
        <4>5. SharedUnregistered'
          BY <1>1, <3>1, <4>1 DEF RowInv, SharedUnregistered
        <4>6. UnsentIsNowhere'
          BY <1>1, <2>1, <3>1, <4>2, <4>3, <4>4 DEF RowInv, UnsentIsNowhere, storeVars
        <4>7. \A j \in Keys : fate'[j] \in {"kept", "cleared"} => fate'[j] = fate[j]
          BY <3>1, <3>2
        <4>8. RegistersWhatIsThere'
          BY <1>1, <2>1, <4>3, <4>4, <4>7 DEF RowInv, RegistersWhatIsThere, storeVars
        <4> QED
          BY <4>5, <4>6, <4>8
      <3>8. ASSUME NEW j \in Keys
            PROVE  RowExplained(j)'
        <4>1. CASE j = k
          BY <2>1, <3>2, <3>3, <3>4, <4>1 DEF RowExplained, Fates, storeVars
        <4>2. CASE j # k
          BY <1>1, <2>1, <3>1, <3>5, <3>6, <4>2 DEF RowInv, RowExplained, storeVars, Spent
        <4> QED
          BY <4>1, <4>2
      <3> QED
        BY <3>7, <3>8 DEF RowInv
    <2> QED
      BY <2>1, <2>2, <2>3
  <1>5. CASE Upload(p)
    <2>1. /\ UNCHANGED <<quar, row, sent>> /\ (UNCHANGED envVars \/ Fault)
          /\ pc[p] = "upload" /\ pc'[p] \in {"clear", "next", "wait"}
          /\ \/ UNCHANGED <<prod, fate>>
             \/ Restore(k) /\ prod' = [prod EXCEPT ![k] = buf[p]]
      BY <1>1, <1>3, <1>5 DEF Upload, Goto, NotPromoted, NextItem, Leave, LetGo, ProcType, dbVars, cliVars
    <2>2. CASE UNCHANGED <<prod, fate>>
      BY <1>1, <1>2, <2>1, <2>2, RowByReading
    <2>3. CASE Restore(k) /\ prod' = [prod EXCEPT ![k] = buf[p]]
      <3>1. buf[p] # Nothing
        BY <2>1, DocumentConstantsOK
           DEF RowContext, CleanInv, Scanned, DocumentConstantsOK, Contents
      <3>2. /\ prod'[k] # Nothing
            /\ \A j \in Keys \ {k} : prod'[j] = prod[j] /\ fate'[j] = fate[j]
            /\ fate'[k] \in {"kept", "cleared"} => fate[k] \in {"kept", "cleared"}
        BY <1>1, <2>3, <3>1 DEF Restore, StoreType, ClientType
      <3>3. \A j \in Keys : RemovalGoesOn(j) => RemovalGoesOn(j)'
        BY <1>1, <1>2, <2>1, RemovalStays
      <3>4. faults + crashes > 0 => Spent
        BY <1>1, <2>1, SpentStays
      <3> QED
        BY <1>1, <1>2, <1>3, <2>1, <3>2, <3>3, <3>4, RowByStep
    <2> QED
      BY <2>1, <2>2, <2>3
  <1>6. CASE RemoveProd(p)
    <2>1. /\ UNCHANGED <<quar, row, sent>> /\ (UNCHANGED envVars \/ Fault)
          /\ pc[p] = "remove" /\ pc'[p] \in {"idle", "row", "ifQuar"}
          /\ \/ UNCHANGED <<prod, fate>>
             \/ /\ prod' = [prod EXCEPT ![k] = Nothing] /\ fate' = [fate EXCEPT ![k] = "removed"]
                /\ \/ Fault
                   \/ op[p] # "delete"
                   \/ pc'[p] = "row" /\ key'[p] = key[p]
      BY <1>1, <1>3, <1>6 DEF RemoveProd, Remove, Goto, Finish, Hang, Rest, ProcType, dbVars, cliVars
    <2>2. CASE UNCHANGED <<prod, fate>>
      BY <1>1, <1>2, <2>1, <2>2, RowByReading
    <2>3. CASE /\ prod' = [prod EXCEPT ![k] = Nothing] /\ fate' = [fate EXCEPT ![k] = "removed"]
               /\ \/ Fault
                  \/ op[p] # "delete"
                  \/ pc'[p] = "row" /\ key'[p] = key[p]
      <3>1. /\ prod'[k] = Nothing /\ fate'[k] = "removed"
            /\ \A j \in Keys \ {k} : prod'[j] = prod[j] /\ fate'[j] = fate[j]
        BY <1>1, <2>3 DEF StoreType, ClientType
      <3>2. \A j \in Keys : RemovalGoesOn(j) => RemovalGoesOn(j)'
        BY <1>1, <1>2, <2>1, RemovalStays
      <3>3. (faults + crashes > 0 => Spent) /\ (Fault => Spent)
        BY <1>1, <2>1, SpentStays
      <3>4. row'[k].id = 0 \/ Spent \/ RemovalGoesOn(k)'
        <4>1. op[p] = "delete" \/ op[p] = "collabDelete"
          BY <1>1, <2>1 DEF RowInv, Kinds, Kind
        <4>2. op[p] = "collabDelete" => row'[k].id = 0
          BY <1>1, <1>3, <2>1 DEF RowInv, Kinds, Kind, SharedUnregistered
        <4>3. pc'[p] = "row" /\ key'[p] = key[p] => RemovalGoesOn(k)'
          BY <1>3 DEF RemovalGoesOn
        <4> QED
          BY <2>3, <3>3, <4>1, <4>2, <4>3
      <3> QED
        BY <1>1, <1>2, <2>1, <3>1, <3>2, <3>3, <3>4, RowByStep
    <2> QED
      BY <2>1, <2>2, <2>3
  <1>7. CASE IfQuar(p) \/ RemoveQuar(p)
    <2>1. /\ UNCHANGED <<prod, row, sent>> /\ (UNCHANGED envVars \/ Fault)
          /\ pc[p] \in {"ifQuar", "removeQuar"}
          /\ Answer(p) \/ UNCHANGED fate \/ Clearing(key[p])
      BY <1>7 DEF IfQuar, RemoveQuar, storeVars, dbVars, cliVars
    <2>2. \A j \in Keys : quar'[j] \in {quar[j], Nothing}
      BY <1>1, <1>7 DEF IfQuar, RemoveQuar, Remove, StoreType, storeVars
    <2>3. pc'[p] \in {"removeQuar", "idle"}
      BY <1>1, <1>7 DEF IfQuar, RemoveQuar, Answer, Goto, Finish, Hang, Rest, ProcType
    <2>4. CASE Answer(p)
      <3>1. Proceed(p)
        BY <1>7 DEF Proceed, Deletion
      <3> QED
        BY <1>1, <2>1, <2>2, <2>4, <3>1, RowByAnswer
    <2>5. CASE UNCHANGED fate \/ Clearing(key[p])
      BY <1>1, <1>2, <2>1, <2>2, <2>3, <2>5, RowByReading
    <2> QED
      BY <2>1, <2>4, <2>5
  <1>8. CASE DeleteRow(p)
    <2>1. /\ UNCHANGED <<storeVars, sent>> /\ (UNCHANGED envVars \/ Fault)
          /\ pc[p] = "row" /\ pc'[p] = "idle"
          /\ Answer(p) \/ (Fault /\ UNCHANGED fate)
      BY <1>1, <1>8 DEF DeleteRow, Answer, Finish, Hang, Rest, ProcType, cliVars
    <2>2. \A j \in Keys : row'[j] = row[j] \/ row'[j].id = 0
      BY <1>1, <1>3, <1>8 DEF DeleteRow, RowType
    <2>3. CASE Answer(p)
      <3>1. Proceed(p)
        BY <1>8 DEF Proceed, Deletion
      <3> QED
        BY <1>1, <2>1, <2>2, <2>3, <3>1, RowByAnswer DEF storeVars
    <2>4. CASE Fault /\ UNCHANGED fate
      <3>1. Spent
        BY <1>1, <2>4, SpentStays
      <3> QED
        BY <1>1, <1>2, <2>1, <2>2, <2>4, <3>1, RowByStep DEF storeVars
    <2> QED
      BY <2>1, <2>3, <2>4
  <1>9. CASE WipeObject(p)
    <2>1. /\ UNCHANGED <<quar, row, sent, pc, key>> /\ (UNCHANGED envVars \/ Fault)
          /\ pc[p] = "wipe"
          /\ \/ UNCHANGED <<prod, fate>>
             \/ \E j \in Keys : prod' = [prod EXCEPT ![j] = Nothing]
                                /\ fate' = [fate EXCEPT ![j] = "removed"]
      BY <1>1, <1>9 DEF WipeObject, Remove, dbVars, cliVars, ProcType, Item
    <2>2. pc'[p] = "wipe"
      BY <2>1
    <2>3. CASE UNCHANGED <<prod, fate>>
      BY <1>1, <1>2, <2>1, <2>2, <2>3, RowByReading
    <2>4. CASE \E j \in Keys : prod' = [prod EXCEPT ![j] = Nothing]
                               /\ fate' = [fate EXCEPT ![j] = "removed"]
      <3>1. PICK j \in Keys : /\ prod' = [prod EXCEPT ![j] = Nothing]
                              /\ fate' = [fate EXCEPT ![j] = "removed"]
        BY <2>4
      <3>2. /\ prod'[j] = Nothing /\ fate'[j] = "removed"
            /\ \A h \in Keys \ {j} : prod'[h] = prod[h] /\ fate'[h] = fate[h]
        BY <1>1, <3>1 DEF StoreType, ClientType
      <3>3. \A h \in Keys : RemovalGoesOn(h)'
        BY <2>2 DEF RemovalGoesOn
      <3>4. faults + crashes > 0 => Spent
        BY <1>1, <2>1, SpentStays
      <3> QED
        BY <1>1, <1>2, <2>1, <2>2, <3>2, <3>3, <3>4, RowByStep
    <2> QED
      BY <2>1, <2>3, <2>4
  <1>10. CASE WipeRows(p)
    <2>1. /\ UNCHANGED <<storeVars, sent, fate>> /\ (UNCHANGED envVars \/ Fault)
          /\ pc[p] = "wipe" /\ pc'[p] = "idle"
      BY <1>1, <1>10 DEF WipeRows, Finish, Hang, Rest, ProcType, cliVars
    <2>2. \/ \A j \in Keys : row'[j].id = 0
          \/ UNCHANGED row /\ Fault
      <3>1. CASE row' = [j \in Keys |-> IF j \in Personal THEN [id |-> 0, size |-> Nothing]
                                        ELSE row[j]]
        <4>1. ASSUME NEW j \in Keys
              PROVE  row'[j].id = 0
          <5>1. CASE j \in Personal
            BY <3>1, <5>1
          <5>2. CASE j \notin Personal
            BY <1>1, <3>1, <5>2 DEF Keys, RowInv, SharedUnregistered
          <5> QED
            BY <5>1, <5>2
        <4> QED
          BY <4>1
      <3> QED
        BY <1>10, <3>1 DEF WipeRows
    <2>3. (faults + crashes > 0 => Spent) /\ (Fault => Spent)
      BY <1>1, <2>1, SpentStays
    <2> QED
      BY <1>1, <1>2, <2>1, <2>2, <2>3, RowByStep DEF storeVars
  <1>11. CASE Crash(p)
    <2>1. /\ UNCHANGED <<storeVars, row, sent, fate>> /\ pc'[p] = "idle"
          /\ crashes' = crashes + 1 /\ UNCHANGED faults
      BY <1>1, <1>11 DEF Crash, Finish, Hang, Rest, ProcType, dbVars, cliVars
    <2>2. Spent
      BY <1>1, <2>1, SpentStays
    <2> QED
      BY <1>1, <1>2, <2>1, <2>2, RowByStep DEF storeVars
  <1> QED
    BY <1>4, <1>5, <1>6, <1>7, <1>8, <1>9, <1>10, <1>11

LEMMA RowByClient ==
    ASSUME RowContext, NEW k \in Keys, Client(k)
    PROVE  RowInv'
  <1>1. StoreType /\ RowType /\ ProcType /\ ClientType /\ RowInv
    BY DEF RowContext, TypeOK
  <1>2. UNCHANGED <<prod, row, op, pc, key, envVars>>
    BY DEF Client, OpenPar, PersonalUrl, SharedUrl, ClosePar, Age, Put, storeVars, dbVars, procVars
  <1>3. Kinds' /\ SharedUnregistered'
    BY <1>1, <1>2 DEF RowInv, Kinds, Kind, SharedUnregistered
  <1>4. \A j \in Keys : RemovalGoesOn(j)' <=> RemovalGoesOn(j)
    BY <1>2 DEF RemovalGoesOn
  <1>5. CASE UNCHANGED <<quar, sent, fate>>
    BY <1>1, <1>2, <1>3, <1>4, <1>5
       DEF RowInv, UnsentIsNowhere, RegistersWhatIsThere, RowExplained, envVars
  <1>6. CASE \E c \in Contents : Put(k, c)
    <2>1. PICK c \in Contents : Put(k, c)
      BY <1>6
    <2>2. /\ \A j \in Keys \ {k} : quar'[j] = quar[j] /\ sent'[j] = sent[j] /\ fate'[j] = fate[j]
          /\ sent'[k] = Append(sent[k], c)
      BY <1>1, <2>1 DEF Put, StoreType, ClientType
    <2>3. Len(sent'[k]) = Len(sent[k]) + 1 /\ Len(sent[k]) \in Nat
      BY <1>1, <2>2 DEF ClientType
    <2>4. UnsentIsNowhere'
      BY <1>1, <1>2, <2>2, <2>3 DEF RowInv, UnsentIsNowhere
    <2>5. RegistersWhatIsThere'
      <3>1. \A p \in Procs : key[p] = k /\ pc[p] = "insert" => Len(sent'[k]) # 1
        BY <1>1, <2>3 DEF RowInv, UnsentIsNowhere
      <3> QED
        BY <1>1, <1>2, <2>2, <3>1 DEF RowInv, RegistersWhatIsThere, ProcType
    <2>6. ASSUME NEW j \in Keys
          PROVE  RowExplained(j)'
      <3>1. CASE j = k
        <4>1. Len(sent'[k]) = 1 => Len(sent[k]) = 0
          <5>1. PICK n \in Nat : n = Len(sent[k])
            BY <2>3
          <5>2. Len(sent'[k]) = n + 1
            BY <2>3, <5>1
          <5>3. n + 1 = 1 => n = 0
            OBVIOUS
          <5> QED
            BY <5>1, <5>2, <5>3, Zenon
        <4>2. Len(sent'[k]) = 1 => row'[k].id = 0
          BY <1>1, <1>2, <4>1, Zenon DEF RowInv, UnsentIsNowhere
        <4>3. RowExplained(k)'
          BY <4>2, Zenon DEF RowExplained
        <4> QED
          BY <3>1, <4>3, Zenon
      <3>2. CASE j # k
        BY <1>1, <1>2, <1>4, <2>2, <3>2 DEF RowInv, RowExplained, envVars
      <3> QED
        BY <3>1, <3>2
    <2> QED
      BY <1>3, <2>4, <2>5, <2>6 DEF RowInv
  <1> QED
    BY <1>5, <1>6 DEF Client, OpenPar, PersonalUrl, SharedUrl, ClosePar, Age, storeVars

LEMMA RowStep == RowContext /\ [Next]_vars => RowContext'
  <1> SUFFICES ASSUME RowContext, [Next]_vars
               PROVE  RowContext'
    OBVIOUS
  <1>1. TypeOK' /\ CleanInv' /\ DeletedInv' /\ TypeOK /\ RowInv /\ FoundByOwner
    BY DocumentTypedStep, CleanStep, DeletedStep DEF RowContext, DeletedInv
  <1>2. CASE UNCHANGED vars
    BY <1>1, <1>2 DEF vars, storeVars, dbVars, procVars, cliVars, envVars, RowInv, Kinds, Kind,
                      SharedUnregistered, UnsentIsNowhere, RegistersWhatIsThere, RowExplained,
                      RemovalGoesOn, RowContext
  <1>3. ASSUME NEW k \in Keys, Client(k)
        PROVE  RowInv'
    BY <1>3, RowByClient
  <1>4. ASSUME NEW p \in Procs, Start(p) \/ Proceed(p) \/ Crash(p)
        PROVE  RowInv'
    <2>1. Kinds'
      BY <1>1, <1>4, KindStep DEF RowInv
    <2> QED
      BY <1>1, <1>4, <2>1, RowReadingStep, RowWritingStep
         DEF Proceed, Promotion, Sweeping, Deletion
  <1> QED
    BY <1>1, <1>2, <1>3, <1>4 DEF Next, RowContext

\* A registered document has its object in production, however many
\* confirmations, promotions and deletions of it overlap, unless its removal
\* is at the row, died or failed there, or came between the confirmation's
\* look and its insertion (document.service.ts confirmDocumentUpload,
\* deleteDocument, anonymizeUserPII).
THEOREM RegisteredIsStored == Spec => []RowHasObject
  <1>1. Init => RowContext
    <2>1. Init => TypeOK /\ CleanInv
      BY DocumentTypedInit DEF Init, CleanInv, Scanned, ProductionIsClean
    <2>2. Init => DeletedInv
      BY AnyKeyIsAKey DEF Init, DeletedInv, RemovedFromProd, DeletedEverywhere, InNobodysHands, FoundByOwner
    <2>3. Init => RowInv
      BY DEF Init, RowInv, Kinds, Kind, SharedUnregistered, UnsentIsNowhere, RegistersWhatIsThere,
             RowExplained, Keys
    <2> QED
      BY <2>1, <2>2, <2>3 DEF RowContext
  <1>2. RowContext => RowHasObject
    BY DEF RowContext, RowInv, RowExplained, RemovalGoesOn, RowHasObject
  <1> QED
    BY <1>1, <1>2, RowStep, PTL DEF Spec
-----------------------------------------------------------------------------
(* The promise of DocumentLife.  Whatever is in a key's quarantine or in     *)
(* production was uploaded to that key, and so was what a procedure holds    *)
(* for it: it takes up another key only with empty hands.                    *)

Carried(p) ==
    /\ pc[p] \in {"scan", "upload"} => buf[p] \in Uploaded(key[p])
    /\ pc[p] = "insert" => size[p] \in Uploaded(key[p])

Stored(k) == {quar[k], prod[k]} \subseteq Uploaded(k) \cup {Nothing}

Traced == (\A k \in Keys : Stored(k)) /\ (\A p \in Procs : Carried(p))

LifeInv == CleanInv /\ Traced

LEMMA SizesKeep ==
    ASSUME TypeOK, NEW p \in Procs, Start(p) \/ Proceed(p) \/ Crash(p),
           NEW q \in Procs, q # p
    PROVE  size'[q] = size[q]
  <1>1. ProcType
    BY DEF TypeOK
  <1>2. ASSUME Finish(p) \/ Hang(p) \/ \E w \in Places : Goto(p, w) \/ Leave(p, w) \/ LetGo(p, w)
        PROVE  size'[q] = size[q]
    BY <1>1, <1>2 DEF ProcType, Finish, Hang, Rest, Goto, Leave, LetGo
  <1>3. CASE Start(p) \/ Crash(p)
    BY <1>1, <1>3 DEF Start, Confirm, ResolveMetadata, Delete, CollabDelete, Anonymize, Begin,
                      Crash, Finish, Hang, Rest, ProcType
  <1>4. CASE Look(p) \/ Wait(p) \/ Meta(p) \/ Find(p) \/ Scan(p) \/ Probe(p) \/ ProbeQuar(p)
             \/ IfProd(p) \/ SweepEnd(p) \/ Insert(p)
    BY <1>2, <1>4 DEF Look, Wait, Meta, Find, Scan, ScanAnswers, Probe, ProbeQuar, IfProd, SweepEnd, Insert,
                      Places, NotPromoted, NextItem
  <1>5. CASE Upload(p) \/ Clear(p) \/ Drop(p) \/ Expire(p) \/ RemoveProd(p) \/ IfQuar(p)
             \/ RemoveQuar(p) \/ DeleteRow(p) \/ WipeRows(p)
    BY <1>2, <1>5 DEF Upload, Clear, Drop, Expire, RemoveProd, IfQuar, RemoveQuar, DeleteRow,
                      WipeRows, Places, Promoted, NotPromoted, Refused, NextItem, Answer
  <1>6. CASE Get(p) \/ Sweep(p) \/ SweepItem(p) \/ Select(p) \/ ListRows(p) \/ WipeObject(p)
    BY <1>2, <1>6 DEF Get, Sweep, SweepItem, Select, ListRows, WipeObject, NotPromoted, NextItem,
                      Finish, Hang, Rest, Places
  <1> QED
    BY <1>3, <1>4, <1>5, <1>6 DEF Proceed, Promotion, Sweeping, Deletion

\* The only ways to have a content in hand: downloaded from the key's
\* quarantine, scanned since, or found in production.
Arrives(p) ==
    \/ pc'[p] \notin {"scan", "upload", "insert"}
    \/ pc'[p] = "scan" /\ key'[p] = key[p] /\ buf'[p] = quar[key[p]] /\ buf'[p] # Nothing
    \/ pc'[p] = "upload" /\ pc[p] = "scan" /\ key'[p] = key[p] /\ buf'[p] = buf[p]
    \/ /\ pc'[p] = "insert" /\ key'[p] = key[p] /\ size'[p] = size[p]
       /\ size[p] = prod[key[p]] /\ size[p] # Nothing

LEMMA ArrivesStep ==
    ASSUME TypeOK, NEW p \in Procs, Start(p) \/ Proceed(p) \/ Crash(p)
    PROVE  Arrives(p)
  <1>1. ProcType
    BY DEF TypeOK
  <1>2. ASSUME Finish(p) \/ Hang(p) \/ \E w \in Places \ {"scan", "upload", "insert"} : Goto(p, w) \/ Leave(p, w) \/ LetGo(p, w)
        PROVE  Arrives(p)
    BY <1>1, <1>2 DEF ProcType, Finish, Hang, Rest, Goto, Leave, LetGo, Arrives
  <1>3. ASSUME Promoted(p) \/ NotPromoted(p) \/ Refused(p)
        PROVE  Arrives(p)
    BY <1>2, <1>3 DEF Promoted, NotPromoted, Refused, NextItem, Places
  <1>4. CASE Start(p) \/ Crash(p)
    BY <1>1, <1>2, <1>4 DEF Start, Confirm, ResolveMetadata, Delete, CollabDelete, Anonymize, Begin,
                            Crash, ProcType, Arrives
  <1>5. CASE Look(p) \/ Wait(p) \/ Find(p) \/ Probe(p) \/ ProbeQuar(p) \/ IfProd(p) \/ SweepEnd(p)
             \/ Insert(p)
    BY <1>2, <1>3, <1>5 DEF Look, Wait, Find, Probe, ProbeQuar, IfProd, SweepEnd, Insert, Places
  <1>6. CASE Upload(p) \/ Clear(p) \/ Drop(p) \/ Expire(p)
    BY <1>2, <1>3, <1>6 DEF Upload, Clear, Drop, Expire, NextItem, Places
  <1>7. CASE RemoveProd(p) \/ IfQuar(p) \/ RemoveQuar(p) \/ DeleteRow(p) \/ WipeRows(p)
    BY <1>2, <1>7 DEF RemoveProd, IfQuar, RemoveQuar, DeleteRow, WipeRows, Answer, Places
  <1>8. CASE Meta(p)
    <2>1. CASE Finish(p) \/ Goto(p, "wait")
      BY <1>2, <2>1 DEF Places
    <2>2. CASE prod[key[p]] # Nothing /\ prod[key[p]] = size[p] /\ Goto(p, "insert")
      BY <1>1, <2>2 DEF Goto, ProcType, Arrives
    <2> QED
      BY <1>8, <2>1, <2>2 DEF Meta
  <1>9. CASE Scan(p)
    <2>1. CASE Goto(p, "drop")
      BY <1>2, <2>1 DEF Places
    <2>2. CASE pc[p] = "scan" /\ Goto(p, "upload")
      BY <1>1, <2>2 DEF Goto, ProcType, Arrives
    <2> QED
      BY <1>2, <1>3, <1>9, <2>1, <2>2 DEF Scan, ScanAnswers
  <1>10. CASE Get(p)
    <2>1. CASE /\ quar[key[p]] # Nothing /\ UNCHANGED key
               /\ buf' = [buf EXCEPT ![p] = quar[key[p]]]
               /\ pc' = [pc EXCEPT ![p] = "scan"]
      BY <1>1, <2>1 DEF ProcType, Arrives
    <2> QED
      BY <1>3, <1>10, <2>1 DEF Get
  <1>11. CASE SweepItem(p)
    BY <1>11, SweepItemMoves DEF Arrives
  <1>12. CASE Sweep(p) \/ Select(p) \/ ListRows(p)
    BY <1>1, <1>2, <1>12 DEF Sweep, Select, ListRows, ProcType, Arrives
  <1>13. CASE WipeObject(p)
    BY <1>13 DEF WipeObject, Arrives
  <1> QED
    BY <1>4, <1>5, <1>6, <1>7, <1>8, <1>9, <1>10, <1>11, <1>12, <1>13
       DEF Proceed, Promotion, Sweeping, Deletion

\* A procedure takes objects away, or uploads what it holds.
LEMMA StoresByStep ==
    ASSUME TypeOK, NEW p \in Procs, Start(p) \/ Proceed(p) \/ Crash(p), NEW k \in Keys
    PROVE  /\ quar'[k] \in {quar[k], Nothing}
           /\ \/ prod'[k] \in {prod[k], Nothing}
              \/ Upload(p) /\ pc[p] = "upload" /\ key[p] = k /\ prod'[k] = buf[p]
           /\ UNCHANGED sent
  <1>1. StoreType
    BY DEF TypeOK
  <1>2. CASE Start(p) \/ Crash(p)
    BY <1>2 DEF Start, Confirm, ResolveMetadata, Delete, CollabDelete, Anonymize, Begin, Crash,
                storeVars, cliVars
  <1>3. CASE Look(p) \/ Wait(p) \/ Meta(p) \/ Find(p) \/ Get(p) \/ Scan(p) \/ Probe(p) \/ ProbeQuar(p)
             \/ IfProd(p) \/ IfQuar(p) \/ Insert(p) \/ Select(p) \/ DeleteRow(p) \/ ListRows(p)
             \/ WipeRows(p) \/ Sweep(p) \/ SweepItem(p) \/ SweepEnd(p)
    BY <1>3 DEF Look, Wait, Meta, Find, Get, Scan, ScanAnswers, Probe, ProbeQuar, IfProd, IfQuar, Insert, Select,
                DeleteRow, ListRows, WipeRows, Sweep, SweepItem, SweepEnd, storeVars, cliVars
  <1>4. CASE Clear(p) \/ Drop(p) \/ Expire(p) \/ RemoveQuar(p)
    BY <1>1, <1>4 DEF Clear, Drop, Expire, RemoveQuar, Remove, StoreType, cliVars
  <1>5. CASE RemoveProd(p) \/ WipeObject(p)
    BY <1>1, <1>5 DEF RemoveProd, WipeObject, Remove, StoreType, cliVars
  <1>6. CASE Upload(p)
    BY <1>1, <1>6 DEF Upload, StoreType, cliVars
  <1> QED
    BY <1>2, <1>3, <1>4, <1>5, <1>6 DEF Proceed, Promotion, Sweeping, Deletion

LEMMA TracedByStep ==
    ASSUME TypeOK, Traced, NEW p \in Procs, Start(p) \/ Proceed(p) \/ Crash(p)
    PROVE  Traced'
  <1>1. /\ \A k \in Keys : /\ Stored(k)
                           /\ quar'[k] \in {quar[k], Nothing}
                           /\ \/ prod'[k] \in {prod[k], Nothing}
                              \/ pc[p] = "upload" /\ key[p] = k /\ prod'[k] = buf[p]
        /\ \A q \in Procs : Carried(q)
    BY StoresByStep DEF Traced
  <1>2. UNCHANGED sent /\ \A q \in Procs : key[q] \in Keys
    <2>1. PICK k \in Keys : TRUE
      BY DocumentConstantsOK DEF DocumentConstantsOK
    <2> QED
      BY <2>1, StoresByStep DEF TypeOK, ProcType
  <1>3. ASSUME NEW k \in Keys
        PROVE  Stored(k)'
    BY <1>1, <1>2, <1>3 DEF Stored, Carried, Uploaded
  <1>4. Carried(p)'
    <2>1. Arrives(p) /\ Carried(p) /\ Stored(key[p])
      BY <1>1, <1>2, ArrivesStep
    <2>2. CASE pc'[p] \notin {"scan", "upload", "insert"}
      BY <2>2 DEF Carried
    <2>3. CASE pc'[p] \in {"scan", "upload"}
      <3>1. key'[p] = key[p] /\ buf'[p] \in Uploaded(key[p])
        BY <2>1, <2>3 DEF Arrives, Carried, Stored
      <3> QED
        BY <1>2, <2>3, <3>1 DEF Carried, Uploaded
    <2>4. CASE pc'[p] = "insert"
      <3>1. key'[p] = key[p] /\ size'[p] \in Uploaded(key[p])
        BY <2>1, <2>4 DEF Arrives, Stored
      <3> QED
        BY <1>2, <2>4, <3>1 DEF Carried, Uploaded
    <2> QED
      BY <2>2, <2>3, <2>4
  <1>5. ASSUME NEW q \in Procs, q # p
        PROVE  Carried(q)'
    <2>1. pc'[q] = pc[q] /\ key'[q] = key[q] /\ buf'[q] = buf[q] /\ size'[q] = size[q]
      BY <1>5, OthersKeep, SizesKeep
    <2> QED
      BY <1>1, <1>2, <2>1 DEF Carried, Uploaded
  <1> QED
    BY <1>3, <1>4, <1>5 DEF Traced

LEMMA UploadedGrows ==
    ASSUME ClientType, NEW k \in Keys, NEW c \in Contents, sent' = [sent EXCEPT ![k] = Append(@, c)]
    PROVE  \A j \in Keys : Uploaded(j)' = IF j = k THEN Uploaded(j) \cup {c} ELSE Uploaded(j)
  <1>1. sent[k] \in Seq(Contents) /\ sent'[k] = Append(sent[k], c)
    BY DEF ClientType
  <1>2. /\ Len(sent'[k]) = Len(sent[k]) + 1 /\ Len(sent[k]) \in Nat
        /\ sent'[k][Len(sent[k]) + 1] = c
        /\ \A n \in 1..Len(sent[k]) : sent'[k][n] = sent[k][n]
        /\ DOMAIN sent[k] = 1..Len(sent[k]) /\ DOMAIN sent'[k] = 1..(Len(sent[k]) + 1)
    BY <1>1
  <1>3. Uploaded(k)' = Uploaded(k) \cup {c}
    BY <1>2 DEF Uploaded
  <1>4. \A j \in Keys : j # k => sent'[j] = sent[j]
    BY DEF ClientType
  <1> QED
    BY <1>3, <1>4 DEF Uploaded

LEMMA TracedByPut ==
    ASSUME TypeOK, Traced, NEW k \in Keys, NEW c \in Contents, Put(k, c)
    PROVE  Traced'
  <1>1. /\ quar' = [quar EXCEPT ![k] = c] /\ sent' = [sent EXCEPT ![k] = Append(@, c)]
        /\ UNCHANGED <<prod, pc, key, buf, size>>
    BY DEF Put, procVars
  <1>2. /\ \A j \in Keys : Uploaded(j) \subseteq Uploaded(j)'
        /\ c \in Uploaded(k)'
    BY <1>1, UploadedGrows DEF TypeOK
  <1>3. \A q \in Procs : key[q] \in Keys
    BY DEF TypeOK, ProcType
  <1>4. \A j \in Keys : Stored(j)'
    BY <1>1, <1>2 DEF Traced, Stored, TypeOK, StoreType
  <1>5. \A q \in Procs : Carried(q)'
    BY <1>1, <1>2, <1>3 DEF Traced, Carried
  <1> QED
    BY <1>4, <1>5 DEF Traced

SameUploads  == [k \in Keys |-> Uploaded(k)]' = [k \in Keys |-> Uploaded(k)]
SameRegister == [k \in Keys |-> Registered(k)]' = [k \in Keys |-> Registered(k)]

LEMMA SameSent == UNCHANGED sent => SameUploads
  BY DEF SameUploads, Uploaded

LEMMA SameRows == UNCHANGED row => SameRegister
  BY DEF SameRegister, Registered

\* An upload by a client is accepted, for its key only.
LEMMA PutIsAccepted ==
    ASSUME TypeOK, NEW k \in Keys, NEW c \in Contents, Put(k, c)
    PROVE  Life!Next
  <1> DEFINE U == [j \in Keys |-> Uploaded(j)]
  <1>1. sent' = [sent EXCEPT ![k] = Append(@, c)] /\ UNCHANGED <<prod, row>>
    BY DEF Put, dbVars
  <1>2. \A j \in Keys : Uploaded(j)' = IF j = k THEN Uploaded(j) \cup {c} ELSE Uploaded(j)
    BY <1>1, UploadedGrows DEF TypeOK
  <1>3. U' = [U EXCEPT ![k] = @ \cup {c}]
    BY <1>2
  <1>4. UNCHANGED prod /\ SameRegister
    BY <1>1, SameRows
  <1>5. Life!Accept(k, c)
    BY <1>3, <1>4 DEF Life!Accept, SameRegister
  <1> QED
    BY <1>5 DEF Life!Next

\* A promotion publishes what was scanned, and what was scanned was uploaded.
LEMMA UploadPublishes ==
    ASSUME LifeInv, NEW p \in Procs, Upload(p), prod' # prod
    PROVE  Life!Next
  <1>1. /\ pc[p] = "upload" /\ prod' = [prod EXCEPT ![key[p]] = buf[p]]
        /\ UNCHANGED <<sent, row>>
    BY DEF Upload, cliVars, dbVars
  <1>2. /\ key[p] \in Keys /\ buf[p] \in Uploaded(key[p]) \cap Clean /\ buf[p] \in Contents
    BY <1>1 DEF LifeInv, CleanInv, Scanned, Traced, Carried, TypeOK, ProcType, Contents
  <1>3. SameUploads /\ SameRegister
    BY <1>1, SameSent, SameRows
  <1>4. Life!Publish(key[p], buf[p])
    BY <1>1, <1>2, <1>3 DEF Life!Publish, SameUploads, SameRegister
  <1> QED
    BY <1>2, <1>4 DEF Life!Next

\* A confirmation registers a content of the key, and replaces no registration.
LEMMA InsertRegisters ==
    ASSUME LifeInv, NEW p \in Procs, Insert(p), row' # row
    PROVE  Life!Next
  <1> DEFINE R == [j \in Keys |-> Registered(j)]
  <1>1. /\ pc[p] = "insert" /\ row[key[p]].id = 0
        /\ row' = [row EXCEPT ![key[p]] = [id |-> inserted + 1, size |-> size[p]]]
        /\ UNCHANGED <<sent, prod>>
    BY DEF Insert, cliVars, dbVars, storeVars
  <1>2. /\ key[p] \in Keys /\ size[p] \in Uploaded(key[p]) \cap Clean /\ size[p] \in Contents
        /\ RowType
    BY <1>1 DEF LifeInv, CleanInv, Scanned, Traced, Carried, TypeOK, ProcType, Contents
  <1>3. \A j \in Keys : Registered(j)' = IF j = key[p] THEN size[p] ELSE Registered(j)
    BY <1>1, <1>2 DEF Registered, RowType
  <1>4. R' = [R EXCEPT ![key[p]] = size[p]] /\ R[key[p]] = Nothing
    BY <1>1, <1>2, <1>3 DEF Registered
  <1>5. SameUploads
    BY <1>1, SameSent
  <1>6. Life!Register(key[p], size[p])
    BY <1>1, <1>2, <1>4, <1>5 DEF Life!Register, SameUploads
  <1> QED
    BY <1>2, <1>6 DEF Life!Next

\* A removal takes the object of one key away.
LEMMA RemovalWithdraws ==
    ASSUME LifeInv, NEW p \in Procs, RemoveProd(p) \/ WipeObject(p), prod' # prod
    PROVE  Life!Next
  <1>1. /\ UNCHANGED <<sent, row>>
        /\ \E k \in Keys : prod' = [prod EXCEPT ![k] = Nothing]
    BY DEF RemoveProd, WipeObject, Remove, cliVars, dbVars, LifeInv, CleanInv, TypeOK, ProcType, Item
  <1>2. PICK k \in Keys : prod' = [prod EXCEPT ![k] = Nothing]
    BY <1>1
  <1>3. SameUploads /\ SameRegister
    BY <1>1, SameSent, SameRows
  <1>4. Life!Withdraw(k)
    BY <1>2, <1>3 DEF Life!Withdraw, SameUploads, SameRegister
  <1> QED
    BY <1>4 DEF Life!Next

\* The end of a deletion takes the row of its document away, that of a removal
\* all of the user's.
LEMMA RowsAreDeregistered ==
    ASSUME LifeInv, NEW p \in Procs, DeleteRow(p) \/ WipeRows(p), row' # row
    PROVE  Life!Next
  <1> DEFINE R == [j \in Keys |-> Registered(j)]
  <1>1. UNCHANGED <<sent, prod>> /\ RowType /\ key[p] \in Keys
    BY DEF DeleteRow, WipeRows, cliVars, storeVars, LifeInv, CleanInv, TypeOK, ProcType
  <1>2. PICK S \in SUBSET Keys :
            row' = [k \in Keys |-> IF k \in S THEN [id |-> 0, size |-> Nothing] ELSE row[k]]
    <2>1. CASE DeleteRow(p)
      <3>1. row' = [row EXCEPT ![key[p]] = [id |-> 0, size |-> Nothing]]
        BY <2>1 DEF DeleteRow
      <3>2. row' = [k \in Keys |-> IF k \in {key[p]} THEN [id |-> 0, size |-> Nothing] ELSE row[k]]
        BY <1>1, <3>1 DEF RowType
      <3> QED
        BY <1>1, <3>2
    <2>2. CASE WipeRows(p)
      BY <2>2 DEF WipeRows, Keys
    <2> QED
      BY <2>1, <2>2
  <1>3. \A j \in Keys : Registered(j)' = IF j \in S THEN Nothing ELSE Registered(j)
    BY <1>2 DEF Registered
  <1>4. R' = [j \in Keys |-> IF j \in S THEN Nothing ELSE R[j]]
    BY <1>3
  <1>5. SameUploads
    BY <1>1, SameSent
  <1>6. Life!Deregister(S)
    BY <1>1, <1>4, <1>5 DEF Life!Deregister, SameUploads
  <1> QED
    BY <1>6 DEF Life!Next

LEMMA RowsByStep ==
    ASSUME NEW p \in Procs, Start(p) \/ Proceed(p) \/ Crash(p)
    PROVE  UNCHANGED row \/ Insert(p) \/ DeleteRow(p) \/ WipeRows(p)
  <1>1. CASE Start(p) \/ Crash(p)
    BY <1>1 DEF Start, Confirm, ResolveMetadata, Delete, CollabDelete, Anonymize, Begin, Crash, dbVars
  <1>2. CASE Look(p) \/ Wait(p) \/ Meta(p) \/ Promotion(p) \/ Sweeping(p)
    BY <1>2 DEF Look, Wait, Meta, Promotion, Find, Get, Scan, ScanAnswers, Upload, Clear, Drop, Sweeping, Sweep,
                SweepItem, SweepEnd, Expire, dbVars
  <1>3. CASE Select(p) \/ Probe(p) \/ ProbeQuar(p) \/ IfProd(p) \/ RemoveProd(p) \/ IfQuar(p)
             \/ RemoveQuar(p) \/ ListRows(p) \/ WipeObject(p)
    BY <1>3 DEF Select, Probe, ProbeQuar, IfProd, RemoveProd, IfQuar, RemoveQuar, ListRows,
                WipeObject, dbVars
  <1> QED
    BY <1>1, <1>2, <1>3 DEF Proceed, Deletion

LEMMA ObjectsByStep ==
    ASSUME NEW p \in Procs, Start(p) \/ Proceed(p) \/ Crash(p)
    PROVE  /\ UNCHANGED prod \/ Upload(p) \/ RemoveProd(p) \/ WipeObject(p)
           /\ UNCHANGED sent
  <1>1. CASE Start(p) \/ Crash(p)
    BY <1>1 DEF Start, Confirm, ResolveMetadata, Delete, CollabDelete, Anonymize, Begin, Crash,
                storeVars, cliVars
  <1>2. CASE Look(p) \/ Wait(p) \/ Meta(p) \/ Insert(p) \/ Promotion(p) \/ Sweeping(p)
    BY <1>2 DEF Look, Wait, Meta, Insert, Promotion, Find, Get, Scan, ScanAnswers, Upload, Clear, Drop, Sweeping,
                Sweep, SweepItem, SweepEnd, Expire, storeVars, cliVars
  <1>3. CASE Deletion(p)
    BY <1>3 DEF Deletion, Select, Probe, ProbeQuar, IfProd, RemoveProd, IfQuar, RemoveQuar,
                DeleteRow, ListRows, WipeObject, WipeRows, storeVars, cliVars
  <1> QED
    BY <1>1, <1>2, <1>3 DEF Proceed

LEMMA LifeStep ==
    ASSUME LifeInv, [Next]_vars
    PROVE  LifeInv' /\ [Life!Next]_(Life!vars)
  <1>1. CleanInv' /\ TypeOK /\ Traced
    BY CleanStep DEF LifeInv, CleanInv
  <1>2. ASSUME UNCHANGED <<sent, prod, row>>
        PROVE  UNCHANGED Life!vars
    BY <1>2, SameSent, SameRows DEF Life!vars, SameUploads, SameRegister
  <1>3. CASE UNCHANGED <<storeVars, procVars, sent, row>>
    <2>1. Traced'
      BY <1>1, <1>3 DEF Traced, Stored, Carried, Uploaded, storeVars, procVars
    <2> QED
      BY <1>1, <1>2, <1>3, <2>1 DEF LifeInv, storeVars
  <1>4. ASSUME NEW k \in Keys, NEW c \in Contents, Put(k, c)
        PROVE  LifeInv' /\ [Life!Next]_(Life!vars)
    BY <1>1, <1>4, TracedByPut, PutIsAccepted DEF LifeInv
  <1>5. ASSUME NEW p \in Procs, Start(p) \/ Proceed(p) \/ Crash(p)
        PROVE  LifeInv' /\ [Life!Next]_(Life!vars)
    <2>1. LifeInv'
      BY <1>1, <1>5, TracedByStep DEF LifeInv
    <2>2. CASE Upload(p) \/ RemoveProd(p) \/ WipeObject(p)
      <3>1. UNCHANGED <<sent, row>>
        BY <2>2 DEF Upload, RemoveProd, WipeObject, cliVars, dbVars
      <3> QED
        BY <1>2, <2>1, <2>2, <3>1, UploadPublishes, RemovalWithdraws
    <2>3. CASE Insert(p) \/ DeleteRow(p) \/ WipeRows(p)
      <3>1. UNCHANGED <<sent, prod>>
        BY <2>3 DEF Insert, DeleteRow, WipeRows, cliVars, storeVars
      <3> QED
        BY <1>2, <2>1, <2>3, <3>1, InsertRegisters, RowsAreDeregistered
    <2>4. CASE UNCHANGED <<sent, prod, row>>
      BY <1>2, <2>1, <2>4
    <2> QED
      BY <1>5, <2>2, <2>3, <2>4, RowsByStep, ObjectsByStep
  <1> QED
    BY <1>3, <1>4, <1>5 DEF Next, Client, OpenPar, ClosePar, Age, dbVars, vars, cliVars

\* For any number of keys, contents and procedures, the pipeline is what
\* DocumentLife promises: what can be fetched under a key or is registered for
\* it is clean and was uploaded to that very key, whatever overlaps
\* (collab-document.service.ts, document.service.ts, run-quarantine-scan.ts).
THEOREM LifeIsImplemented == Spec => ImplementsLife
  <1>1. Init => LifeInv /\ Life!Init
    <2> SUFFICES ASSUME Init
                 PROVE  LifeInv /\ Life!Init
      OBVIOUS
    <2>1. CleanInv
      BY DocumentTypedInit DEF CleanInv, Init, Scanned, ProductionIsClean
    <2>2. Traced
      BY DEF Init, Traced, Stored, Carried
    <2>3. \A k \in Keys : Uploaded(k) = {} /\ Registered(k) = Nothing
      BY DEF Init, Uploaded, Registered
    <2>4. Life!Init
      BY <2>3 DEF Life!Init, Init
    <2> QED
      BY <2>1, <2>2, <2>4 DEF LifeInv
  <1>2. LifeInv /\ [Next]_vars => LifeInv' /\ [Life!Next]_(Life!vars)
    BY LifeStep
  <1> QED
    BY <1>1, <1>2, PTL DEF Spec, ImplementsLife, Life!Spec
-----------------------------------------------------------------------------
(* Procedures go forward.  Between two polls of a confirmation and from the   *)
(* listing of a sweep or of a user's rows on, each call a procedure makes     *)
(* brings it nearer its end: it works off what it has listed, and the places  *)
(* it passes for one key are ordered.  Keys may be infinitely many, so the    *)
(* order is on sets and not on their sizes.                                   *)

Order == [look |-> 9, find |-> 8, get |-> 7, scan |-> 6, upload |-> 5, clear |-> 4, drop |-> 4,
          meta |-> 3, insert |-> 2, wait |-> 2, expire |-> 2, next |-> 1, wipe |-> 1,
          select |-> 9, probe |-> 8, probeQuar |-> 7, ifProd |-> 6, remove |-> 5, ifQuar |-> 4,
          removeQuar |-> 3, row |-> 3, list |-> 2, idle |-> 0]

\* Where a procedure, a poll or a listing begins.
Begins == {"idle", "wait", "list"}

Nearer(p) ==
    \/ todo'[p] \subseteq todo[p] /\ todo'[p] # todo[p]
    \/ todo'[p] = todo[p] /\ Order[pc'[p]] < Order[pc[p]]

Halts(p) == pc'[p] \in {"idle", "hung"} /\ todo'[p] = {}

Still(p) ==
    /\ op'[p] = op[p] /\ pc'[p] = pc[p] /\ key'[p] = key[p] /\ size'[p] = size[p]
    /\ buf'[p] = buf[p] /\ found'[p] = found[p] /\ todo'[p] = todo[p]

ProceduresForward ==
    \A p \in Procs : Still(p) \/ pc[p] \in Begins \/ Halts(p) \/ Nearer(p)

LEMMA MovesForward ==
    ASSUME TypeOK, NEW p \in Procs, NEW w \in Places,
           Goto(p, w) \/ Leave(p, w) \/ LetGo(p, w) \/ (pc' = [pc EXCEPT ![p] = w] /\ UNCHANGED todo),
           Order[w] < Order[pc[p]]
    PROVE  Nearer(p)
  BY DEF TypeOK, ProcType, Goto, Leave, LetGo, Nearer

LEMMA FinishHalts ==
    ASSUME TypeOK, NEW p \in Procs, Finish(p) \/ Hang(p)
    PROVE  Halts(p)
  BY DEF TypeOK, ProcType, Finish, Hang, Rest, Halts

LEMMA PromotionForward ==
    ASSUME TypeOK, NEW p \in Procs, Promotion(p)
    PROVE  Halts(p) \/ Nearer(p)
  <1>1. ASSUME Order["wait"] < Order[pc[p]], Order["next"] < Order[pc[p]], NotPromoted(p)
        PROVE  Nearer(p)
    BY <1>1, MovesForward DEF NotPromoted, NextItem, Places
  <1>2. CASE Find(p)
    BY <1>1, <1>2, MovesForward DEF Find, Places, Order
  <1>3. CASE Get(p)
    BY <1>1, <1>3, MovesForward DEF Get, Places, Order
  <1>4. CASE Scan(p)
    BY <1>1, <1>4, MovesForward, FinishHalts DEF Scan, ScanAnswers, Places, Order
  <1>5. CASE Upload(p)
    BY <1>1, <1>5, MovesForward DEF Upload, Places, Order
  <1>6. CASE Clear(p)
    BY <1>1, <1>6, MovesForward DEF Clear, Promoted, NextItem, Places, Order
  <1>7. CASE Drop(p)
    BY <1>1, <1>7, MovesForward, FinishHalts DEF Drop, Refused, NextItem, Places, Order
  <1> QED
    BY <1>2, <1>3, <1>4, <1>5, <1>6, <1>7 DEF Promotion

LEMMA TakingForward ==
    ASSUME TypeOK, NEW p \in Procs, NEW it \in todo[p], todo' = [todo EXCEPT ![p] = @ \ {it}]
    PROVE  Nearer(p)
  BY DEF TypeOK, ProcType, Nearer

LEMMA DeletionForward ==
    ASSUME TypeOK, NEW p \in Procs, Deletion(p)
    PROVE  pc[p] \in Begins \/ Halts(p) \/ Nearer(p)
  <1>1. CASE Select(p)
    BY <1>1, MovesForward, FinishHalts DEF Select, Places, Order
  <1>2. CASE Probe(p) \/ ProbeQuar(p) \/ IfProd(p)
    BY <1>2, MovesForward, FinishHalts DEF Probe, ProbeQuar, IfProd, Places, Order
  <1>3. CASE RemoveProd(p)
    BY <1>3, MovesForward, FinishHalts DEF RemoveProd, Places, Order
  <1>4. CASE IfQuar(p) \/ RemoveQuar(p) \/ DeleteRow(p) \/ WipeRows(p)
    BY <1>4, MovesForward, FinishHalts DEF IfQuar, RemoveQuar, DeleteRow, WipeRows, Answer, Places, Order
  <1>5. CASE ListRows(p)
    BY <1>5 DEF ListRows, Begins
  <1>6. CASE WipeObject(p)
    BY <1>6, TakingForward DEF WipeObject
  <1> QED
    BY <1>1, <1>2, <1>3, <1>4, <1>5, <1>6 DEF Deletion

LEMMA ProcedureForward ==
    ASSUME TypeOK, NEW p \in Procs, Start(p) \/ Proceed(p) \/ Crash(p)
    PROVE  pc[p] \in Begins \/ Halts(p) \/ Nearer(p)
  <1>1. CASE Start(p)
    BY <1>1 DEF Start, Confirm, ResolveMetadata, Delete, CollabDelete, Anonymize, Begin, Begins
  <1>2. CASE Crash(p)
    BY <1>2, FinishHalts DEF Crash
  <1>3. CASE Look(p) \/ Meta(p)
    BY <1>3, MovesForward, FinishHalts DEF Look, Meta, Places, Order
  <1>4. CASE Wait(p)
    BY <1>4 DEF Wait, Begins
  <1>5. CASE Insert(p)
    BY <1>5, FinishHalts DEF Insert
  <1>6. CASE Promotion(p)
    BY <1>6, PromotionForward
  <1>7. CASE Sweep(p)
    BY <1>7 DEF Sweep, Begins
  <1>8. CASE SweepItem(p)
    BY <1>8, TakingForward DEF SweepItem
  <1>9. CASE SweepEnd(p)
    BY <1>9, FinishHalts DEF SweepEnd
  <1>10. CASE Expire(p)
    BY <1>10, MovesForward, FinishHalts DEF Expire, NextItem, Places, Order
  <1>11. CASE Deletion(p)
    BY <1>11, DeletionForward
  <1> QED
    BY <1>1, <1>2, <1>3, <1>4, <1>5, <1>6, <1>7, <1>8, <1>9, <1>10, <1>11 DEF Proceed, Sweeping

LEMMA OthersStill ==
    ASSUME TypeOK, NEW p \in Procs, Start(p) \/ Proceed(p) \/ Crash(p),
           NEW q \in Procs, q # p
    PROVE  Still(q)
  <1>1. ProcType
    BY DEF TypeOK
  <1>2. ASSUME Finish(p) \/ Hang(p) \/ \E w \in Places : Goto(p, w) \/ Leave(p, w) \/ LetGo(p, w)
        PROVE  todo'[q] = todo[q]
    BY <1>1, <1>2 DEF ProcType, Finish, Hang, Rest, Goto, Leave, LetGo
  <1>3. todo'[q] = todo[q]
    <2>1. CASE Start(p) \/ Crash(p)
      BY <1>1, <2>1 DEF Start, Confirm, ResolveMetadata, Delete, CollabDelete, Anonymize, Begin,
                        Crash, Finish, Hang, Rest, ProcType
    <2>2. CASE Look(p) \/ Wait(p) \/ Meta(p) \/ Find(p) \/ Scan(p) \/ Probe(p) \/ ProbeQuar(p)
               \/ IfProd(p) \/ SweepEnd(p) \/ Insert(p)
      BY <1>2, <2>2 DEF Look, Wait, Meta, Find, Scan, ScanAnswers, Probe, ProbeQuar, IfProd, SweepEnd, Insert,
                        Places, NotPromoted, NextItem
    <2>3. CASE Upload(p) \/ Clear(p) \/ Drop(p) \/ Expire(p) \/ RemoveProd(p) \/ IfQuar(p)
               \/ RemoveQuar(p) \/ DeleteRow(p) \/ WipeRows(p)
      BY <1>2, <2>3 DEF Upload, Clear, Drop, Expire, RemoveProd, IfQuar, RemoveQuar, DeleteRow,
                        WipeRows, Places, Promoted, NotPromoted, Refused, NextItem, Answer
    <2>4. CASE Get(p) \/ Sweep(p) \/ SweepItem(p) \/ Select(p) \/ ListRows(p) \/ WipeObject(p)
      BY <1>1, <1>2, <2>4 DEF Get, Sweep, SweepItem, Select, ListRows, WipeObject, NotPromoted,
                              NextItem, Places, ProcType
    <2> QED
      BY <2>1, <2>2, <2>3, <2>4 DEF Proceed, Promotion, Sweeping, Deletion
  <1> QED
    BY <1>3, OthersKeep, SizesKeep DEF Still

\* A confirmation between two polls, a deletion, a removal and a sweep end, or
\* wait in a scan that never ends: no
\* call of theirs is made twice for an item they have listed, whatever it
\* answers and whatever other procedures do to the same objects
\* (run-quarantine-scan.ts, document.service.ts, collab-document.service.ts).
THEOREM ProceduresAdvance == Spec => [][ProceduresForward]_vars
  <1>1. TypeOK /\ [Next]_vars => ProceduresForward
    <2> SUFFICES ASSUME TypeOK, [Next]_vars
                 PROVE  ProceduresForward
      OBVIOUS
    <2>1. CASE UNCHANGED procVars
      BY <2>1 DEF procVars, ProceduresForward, Still
    <2>2. ASSUME NEW p \in Procs, Start(p) \/ Proceed(p) \/ Crash(p)
          PROVE  ProceduresForward
      BY <2>2, ProcedureForward, OthersStill DEF ProceduresForward
    <2> QED
      BY <2>1, <2>2 DEF Next, Client, OpenPar, ClosePar, Age, Put, vars
  <1> QED
    BY <1>1, DocumentTypeCorrect, PTL DEF Spec
=============================================================================

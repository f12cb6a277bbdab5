--------------------------- MODULE DocumentPipeline ---------------------------
(***************************************************************************)
(* The life of a document: uploaded straight to the quarantine prefix of   *)
(* the bucket, scanned and promoted by whoever comes first (a confirmation,*)
(* a collaboration command or the quarantine sweep), registered in         *)
(* media_assets, and deleted by its owner, by crm-collab or when the user  *)
(* is removed.                                                             *)
(*                                                                         *)
(* Nothing serialises these procedures: each runs one storage or database  *)
(* call at a time, and between two calls anything may happen.  A process   *)
(* below is one such procedure in progress.                                *)
(***************************************************************************)
EXTENDS Integers, Sequences, FiniteSets

CONSTANTS
    Personal,   \* keys documents/<user>/... of one user
    Shared,     \* keys projects/... and clients/... of crm-collab
    Undated,    \* keys whose object the listing gives no time for
    Clean,      \* contents that pass the antivirus, and the validation under
                \* whichever type a HEAD gives for them
    Rejected,   \* contents that do not, under any type
    Nothing,    \* no object
    Requests,   \* procedures run for an HTTP request or a stream message
    Sweepers,   \* procedures that run runQuarantineScan
    MaxBusy,    \* bound: procedures that make progress at once
    MaxPuts,    \* bound: uploads of one key
    MaxRows,    \* bound: rows ever inserted in media_assets
    MaxCrashes, \* bound: processes that die
    MaxFaults   \* bound: storage or database calls that fail

Keys     == Personal \cup Shared
AnyKey   == CHOOSE k \in Keys : TRUE
Contents == Clean \cup Rejected
Procs    == Requests \cup Sweepers

ASSUME DocumentConstantsOK ==
    /\ Keys # {} /\ Undated \subseteq Keys
    /\ Personal \cap Shared = {} /\ Clean \cap Rejected = {}
    /\ Requests \cap Sweepers = {}
    /\ Nothing \notin Contents
    /\ MaxBusy \in Nat /\ MaxPuts \in Nat
    /\ MaxRows \in Nat /\ MaxCrashes \in Nat /\ MaxFaults \in Nat

VARIABLES
    quar,     \* the object quarantine/<key>
    prod,     \* the object <key>
    age,      \* of the quarantined object: within grace, ripe, past its maximum age
    par,      \* the pre-authenticated request that lets the client upload
    row,      \* the row of media_assets: its id, 0 for none, and its size
    inserted, \* ids handed out
    op,       \* what a process is doing
    pc,       \* the call it makes next
    key,      \* the key it works on
    size,     \* the size the client declared (a content stands for its size)
    buf,      \* the content it has downloaded
    found,    \* the id of the row it has selected
    todo,     \* what is left of the page it has listed
    sent,     \* the contents uploaded to a key so far
    fate,     \* for the properties: what has become of the key since its last upload
    crashes, faults

storeVars == <<quar, prod>>
dbVars    == <<row, inserted>>
procVars  == <<op, pc, key, size, buf, found, todo>>
cliVars   == <<age, par, sent>>
envVars   == <<crashes, faults>>
vars == <<storeVars, dbVars, procVars, cliVars, fate, envVars>>

Item == [key : Keys, age : {"young", "ripe", "old", "undated"}]

Init ==
    /\ quar = [k \in Keys |-> Nothing] /\ prod = [k \in Keys |-> Nothing]
    /\ age = [k \in Keys |-> "young"] /\ par = [k \in Keys |-> "none"]
    /\ row = [k \in Keys |-> [id |-> 0, size |-> Nothing]] /\ inserted = 0
    /\ op = [p \in Procs |-> "none"] /\ pc = [p \in Procs |-> "idle"]
    /\ key = [p \in Procs |-> AnyKey]
    /\ size = [p \in Procs |-> Nothing] /\ buf = [p \in Procs |-> Nothing]
    /\ found = [p \in Procs |-> 0] /\ todo = [p \in Procs |-> {}]
    /\ sent = [k \in Keys |-> <<>>] /\ fate = [k \in Keys |-> "kept"]
    /\ crashes = 0 /\ faults = 0

-----------------------------------------------------------------------------
(* The client and the clock.                                                *)

\* upload-url: a personal key carries a fresh uuid, a shared one is the
\* caller's choice and may be opened again.
PersonalUrl(k) == k \in Personal /\ par[k] = "none"
SharedUrl(k)   == k \in Shared /\ par[k] # "open"

OpenPar(k) ==
    /\ PersonalUrl(k) \/ SharedUrl(k)
    /\ par' = [par EXCEPT ![k] = "open"]
    /\ UNCHANGED <<storeVars, dbVars, procVars, age, sent, fate, envVars>>

ClosePar(k) ==
    /\ par[k] = "open"
    /\ par' = [par EXCEPT ![k] = "closed"]
    /\ UNCHANGED <<storeVars, dbVars, procVars, age, sent, fate, envVars>>

Put(k, c) ==
    /\ par[k] = "open" /\ Len(sent[k]) < MaxPuts
    /\ quar' = [quar EXCEPT ![k] = c]
    /\ age' = [age EXCEPT ![k] = "young"]
    /\ sent' = [sent EXCEPT ![k] = Append(@, c)]
    /\ fate' = [fate EXCEPT ![k] = "kept"]
    /\ UNCHANGED <<prod, par, dbVars, procVars, envVars>>

\* The grace period is shorter than the life of a PAR, the maximum age longer.
Age(k) ==
    /\ quar[k] # Nothing /\ k \notin Undated
    /\ \/ age[k] = "young" /\ age' = [age EXCEPT ![k] = "ripe"]
       \/ /\ age[k] = "ripe" /\ (k \in Personal => par[k] # "open")
          /\ age' = [age EXCEPT ![k] = "old"]
    /\ UNCHANGED <<storeVars, par, sent, dbVars, procVars, fate, envVars>>

-----------------------------------------------------------------------------
(* Procedures.                                                              *)

\* A call fails: its promise rejects, before or after the call took effect.
Fault == faults < MaxFaults /\ faults' = faults + 1 /\ UNCHANGED crashes

Goto(p, where) ==
    /\ pc' = [pc EXCEPT ![p] = where]
    /\ UNCHANGED <<op, key, size, buf, found, todo>>

\* A procedure that comes to rest: what it knew is forgotten.
Rest(p, where) ==
    /\ op' = [op EXCEPT ![p] = "none"] /\ pc' = [pc EXCEPT ![p] = where]
    /\ size' = [size EXCEPT ![p] = Nothing] /\ buf' = [buf EXCEPT ![p] = Nothing]
    /\ found' = [found EXCEPT ![p] = 0] /\ todo' = [todo EXCEPT ![p] = {}]
    /\ key' = [key EXCEPT ![p] = AnyKey]

\* It returns or throws.
Finish(p) == Rest(p, "idle")

\* A sweep waits without end; its timer starts no other meanwhile.
Hang(p) == p \in Sweepers /\ Rest(p, "hung")

Busy == {p \in Procs : pc[p] \notin {"idle", "hung"}}

Begin(p, what, k, c, where) ==
    /\ p \in Requests /\ pc[p] = "idle" /\ Cardinality(Busy) < MaxBusy
    /\ op' = [op EXCEPT ![p] = what] /\ pc' = [pc EXCEPT ![p] = where]
    /\ key' = [key EXCEPT ![p] = k] /\ size' = [size EXCEPT ![p] = c]
    /\ UNCHANGED <<storeVars, dbVars, buf, found, todo, cliVars, fate, envVars>>

Confirming == {p \in Requests : op[p] = "confirm"}

Confirm(p, k, c) ==
    /\ k \in Personal
    /\ inserted + Cardinality(Confirming) < MaxRows
    /\ Begin(p, "confirm", k, c, "look")
ResolveMetadata(p, k)    == k \in Shared /\ Begin(p, "metadata", k, Nothing, "look")
Delete(p, k)             == k \in Personal /\ Begin(p, "delete", k, Nothing, "select")
CollabDelete(p, k)       == k \in Shared /\ Begin(p, "collabDelete", k, Nothing, "probe")
Anonymize(p)             == \E k \in Personal : Begin(p, "anonymize", k, Nothing, "list")

Remove(obj, k) == obj' = [obj EXCEPT ![k] = Nothing]

-----------------------------------------------------------------------------
(* Confirmation and metadata: is the object in production?                  *)

\* Mutation: the object may as well be in quarantine.
LookAnywhere(p) == LET k == key[p] IN
    /\ pc[p] = "look" /\ op[p] = "confirm"
    /\ IF {prod[k], quar[k]} # {Nothing} THEN Goto(p, "insert") ELSE Finish(p)
    /\ UNCHANGED <<storeVars, dbVars, cliVars, fate, envVars>>

\* A HEAD that fails counts as no object.
Look(p) == LET k == key[p] IN
    /\ pc[p] = "look"
    /\ \/ /\ prod[k] # Nothing /\ UNCHANGED envVars
          /\ IF op[p] = "confirm" THEN Goto(p, "meta") ELSE Finish(p)
       \/ /\ prod[k] = Nothing /\ UNCHANGED envVars
          /\ Goto(p, "find")
       \/ Fault /\ Goto(p, "find")
    /\ UNCHANGED <<storeVars, dbVars, cliVars, fate>>

\* Not promoted: poll again, or answer 422 when the deadline has passed.
Wait(p) ==
    /\ pc[p] = "wait"
    /\ Goto(p, "look") \/ Finish(p)
    /\ UNCHANGED <<storeVars, dbVars, cliVars, fate, envVars>>

\* Mutation: the declared size is taken for the object's.
MetaUnchecked(p) == LET k == key[p] IN
    /\ pc[p] = "meta"
    /\ \/ /\ prod[k] # Nothing /\ UNCHANGED envVars
          /\ IF op[p] = "confirm" THEN Goto(p, "insert") ELSE Finish(p)
       \/ /\ (prod[k] = Nothing /\ UNCHANGED envVars) \/ Fault
          /\ IF op[p] = "confirm" THEN Finish(p) ELSE Goto(p, "wait")
    /\ UNCHANGED <<storeVars, dbVars, cliVars, fate>>

\* The size the client declared must be the object's (400 otherwise); the
\* metadata of a shared file is returned or refused, which changes nothing.
Meta(p) == LET k == key[p] IN
    /\ pc[p] = "meta"
    /\ \/ /\ prod[k] # Nothing /\ UNCHANGED envVars
          /\ IF prod[k] = size[p] /\ op[p] = "confirm" THEN Goto(p, "insert") ELSE Finish(p)
       \/ /\ (prod[k] = Nothing /\ UNCHANGED envVars) \/ Fault
          /\ IF op[p] = "confirm" THEN Finish(p) ELSE Goto(p, "wait")
    /\ UNCHANGED <<storeVars, dbVars, cliVars, fate>>

\* The quarantined object is given up; an object or a row appears after a
\* removal.
Clearing(k) == fate' = [fate EXCEPT ![k] = IF @ = "kept" THEN "cleared" ELSE @]
Restore(k) == fate' = [fate EXCEPT ![k] = IF @ = "removed" THEN "restored" ELSE @]

\* object_key is unique: a second confirmation fails here.
Insert(p) == LET k == key[p] IN
    /\ pc[p] = "insert"
    /\ \/ /\ row[k].id = 0 /\ (UNCHANGED envVars \/ Fault)
          /\ row' = [row EXCEPT ![k] = [id |-> inserted + 1, size |-> size[p]]]
          /\ inserted' = inserted + 1
          /\ Restore(k)
       \/ row[k].id # 0 /\ UNCHANGED <<dbVars, fate, envVars>>
       \/ Fault /\ UNCHANGED <<dbVars, fate>>
    /\ Finish(p)
    /\ UNCHANGED <<storeVars, cliVars>>

-----------------------------------------------------------------------------
(* tryPromoteFromQuarantine and the body of the sweep's loop.               *)

Leave(p, where) ==
    /\ pc' = [pc EXCEPT ![p] = where]
    /\ buf' = [buf EXCEPT ![p] = Nothing]
    /\ UNCHANGED <<op, key, size, found, todo>>

\* A sweep is done with the object.
LetGo(p, where) ==
    /\ pc' = [pc EXCEPT ![p] = where]
    /\ key' = [key EXCEPT ![p] = AnyKey] /\ buf' = [buf EXCEPT ![p] = Nothing]
    /\ UNCHANGED <<op, size, found, todo>>

NextItem(p)    == LetGo(p, "next")
Promoted(p)    == IF p \in Sweepers THEN NextItem(p) ELSE Leave(p, "meta")
NotPromoted(p) == IF p \in Sweepers THEN NextItem(p) ELSE Leave(p, "wait")
Refused(p)     == IF p \in Sweepers THEN NextItem(p) ELSE Finish(p)

Find(p) ==
    /\ pc[p] = "find"
    /\ \/ quar[key[p]] # Nothing /\ UNCHANGED envVars /\ Goto(p, "get")
       \/ quar[key[p]] = Nothing /\ UNCHANGED envVars /\ NotPromoted(p)
       \/ Fault /\ NotPromoted(p)
    /\ UNCHANGED <<storeVars, dbVars, cliVars, fate>>

\* The download; the HEAD for the type that follows it cannot fail.
Get(p) ==
    /\ pc[p] = "get"
    /\ \/ /\ quar[key[p]] # Nothing /\ UNCHANGED envVars
          /\ buf' = [buf EXCEPT ![p] = quar[key[p]]]
          /\ pc' = [pc EXCEPT ![p] = "scan"]
          /\ UNCHANGED <<op, key, size, found, todo>>
       \/ quar[key[p]] = Nothing /\ UNCHANGED envVars /\ NotPromoted(p)
       \/ Fault /\ NotPromoted(p)
    /\ UNCHANGED <<storeVars, dbVars, cliVars, fate>>

\* scanBufferForVirus gives its verdict.
ScanAnswers(p) ==
    /\ pc[p] = "scan"
    /\ \/ buf[p] \in Clean /\ Goto(p, "upload")
       \/ buf[p] \in Rejected /\ Goto(p, "drop")
    /\ UNCHANGED <<storeVars, dbVars, cliVars, fate, envVars>>

\* It throws when ClamAV is not ready in time, and waits without end for a
\* connection that is accepted and never served: a request is then as good as
\* gone.
Scan(p) ==
    \/ ScanAnswers(p)
    \/ /\ pc[p] = "scan"
       /\ NotPromoted(p) \/ Hang(p) \/ (p \in Requests /\ Finish(p))
       /\ UNCHANGED <<storeVars, dbVars, cliVars, fate, envVars>>

\* Mutation: copy the object on the server instead of the scanned buffer.
UploadByCopy(p) == LET k == key[p] IN
    /\ pc[p] = "upload" /\ quar[k] # Nothing
    /\ prod' = [prod EXCEPT ![k] = quar[k]]
    /\ Goto(p, "clear")
    /\ UNCHANGED <<quar, dbVars, cliVars, fate, envVars>>

\* Mutation: the quarantine is cleared before the upload.
UploadAfterClear(p) == LET k == key[p] IN
    /\ pc[p] = "upload" /\ quar[k] # Nothing
    /\ Remove(quar, k)
    /\ \/ prod' = [prod EXCEPT ![k] = buf[p]] /\ UNCHANGED envVars /\ Promoted(p)
       \/ UNCHANGED prod /\ Fault /\ NotPromoted(p)
    /\ UNCHANGED <<dbVars, cliVars, fate>>

\* The scanned buffer, not the object that is in quarantine by now.
Upload(p) == LET k == key[p] IN
    /\ pc[p] = "upload"
    /\ \/ /\ prod' = [prod EXCEPT ![k] = buf[p]] /\ Restore(k)
          /\ \/ UNCHANGED envVars /\ Goto(p, "clear")
             \/ Fault /\ NotPromoted(p)
       \/ Fault /\ NotPromoted(p) /\ UNCHANGED <<prod, fate>>
    /\ UNCHANGED <<quar, dbVars, cliVars>>

\* Mutation: when the quarantined object is gone the upload is tried again.
ClearOrAgain(p) == LET k == key[p] IN
    /\ pc[p] = "clear" /\ UNCHANGED envVars
    /\ \/ quar[k] # Nothing /\ Remove(quar, k) /\ Promoted(p)
       \/ quar[k] = Nothing /\ UNCHANGED quar /\ Goto(p, "upload")
    /\ UNCHANGED <<prod, dbVars, cliVars, fate>>

\* Deleting an object that is gone is an error.
Clear(p) == LET k == key[p] IN
    /\ pc[p] = "clear"
    /\ \/ quar[k] # Nothing /\ Remove(quar, k) /\ UNCHANGED envVars /\ Promoted(p)
       \/ quar[k] = Nothing /\ UNCHANGED <<quar, envVars>> /\ NotPromoted(p)
       \/ Fault /\ (Remove(quar, k) \/ UNCHANGED quar) /\ NotPromoted(p)
    /\ UNCHANGED <<prod, dbVars, cliVars, fate>>

Drop(p) == LET k == key[p] IN
    /\ pc[p] = "drop"
    /\ \/ quar[k] # Nothing /\ Remove(quar, k) /\ UNCHANGED envVars /\ Refused(p)
       \/ quar[k] = Nothing /\ UNCHANGED <<quar, envVars>> /\ NotPromoted(p)
       \/ Fault /\ (Remove(quar, k) \/ UNCHANGED quar) /\ NotPromoted(p)
    /\ UNCHANGED <<prod, dbVars, cliVars, fate>>

-----------------------------------------------------------------------------
(* runQuarantineScan.                                                       *)

\* The age of an object as the listing tells it.
Listed(k) == IF k \in Undated THEN "undated" ELSE age[k]

\* List the prefix.
Sweep(p) ==
    /\ p \in Sweepers /\ pc[p] = "idle" /\ Cardinality(Busy) < MaxBusy
    /\ op' = [op EXCEPT ![p] = "sweep"] /\ pc' = [pc EXCEPT ![p] = "next"]
    /\ todo' = [todo EXCEPT ![p] =
                  {it \in Item : quar[it.key] # Nothing /\ it.age = Listed(it.key)}]
    /\ UNCHANGED <<storeVars, dbVars, key, size, buf, found, cliVars, fate, envVars>>

\* Mutation: the age limit is not looked at.
SweepItemNoLimit(p) == \E it \in todo[p] :
    /\ pc[p] = "next"
    /\ todo' = [todo EXCEPT ![p] = @ \ {it}]
    /\ key' = [key EXCEPT ![p] = it.key]
    /\ pc' = [pc EXCEPT ![p] = IF it.age = "young" THEN "next" ELSE "get"]
    /\ UNCHANGED <<storeVars, dbVars, op, size, buf, found, cliVars, fate, envVars>>

\* An object without a time counts as just past the grace period, always.
SweepItem(p) == \E it \in todo[p] :
    /\ pc[p] = "next"
    /\ todo' = [todo EXCEPT ![p] = @ \ {it}]
    /\ key' = [key EXCEPT ![p] = it.key]
    /\ pc' = [pc EXCEPT ![p] = CASE it.age = "young" -> "next"
                                 [] it.age \in {"ripe", "undated"} -> "get"
                                 [] it.age = "old" -> "expire"]
    /\ UNCHANGED <<storeVars, dbVars, op, size, buf, found, cliVars, fate, envVars>>

SweepEnd(p) ==
    /\ pc[p] = "next" /\ todo[p] = {}
    /\ Finish(p)
    /\ UNCHANGED <<storeVars, dbVars, cliVars, fate, envVars>>

\* Outside the loop's try: an error here, a missing object included, ends the
\* whole sweep.
Expire(p) == LET k == key[p] IN
    /\ pc[p] = "expire"
    /\ \/ /\ quar[k] # Nothing /\ Remove(quar, k)
          /\ Clearing(k)
          /\ \/ UNCHANGED envVars /\ NextItem(p)
             \/ Fault /\ Finish(p)
       \/ quar[k] = Nothing /\ UNCHANGED <<quar, fate, envVars>> /\ Finish(p)
       \/ Fault /\ UNCHANGED <<quar, fate>> /\ Finish(p)
    /\ UNCHANGED <<prod, dbVars, cliVars>>

-----------------------------------------------------------------------------
(* deleteDocument, deleteDocumentForCollabCommand, anonymizeUserPII.        *)

\* The owner's deletion needs the row (404 without).
Select(p) ==
    /\ pc[p] = "select"
    /\ IF row[key[p]].id = 0
         THEN Finish(p)
         ELSE /\ found' = [found EXCEPT ![p] = row[key[p]].id]
              /\ pc' = [pc EXCEPT ![p] = "remove"]
              /\ UNCHANGED <<op, key, size, buf, todo>>
    /\ UNCHANGED <<storeVars, dbVars, cliVars, fate, envVars>>

\* Collaboration: an object of the key in either place is enough (404
\* without); then each of the two is deleted if a HEAD still sees it.  The
\* row it looks for first is never there, as only documents/ keys get one, but
\* that query may fail.
Probe(p) == LET k == key[p] IN
    /\ pc[p] = "probe"
    /\ \/ prod[k] # Nothing /\ UNCHANGED envVars /\ Goto(p, "ifProd")
       \/ /\ (prod[k] = Nothing /\ UNCHANGED envVars) \/ Fault
          /\ Goto(p, "probeQuar")
       \/ Fault /\ Finish(p)
    /\ UNCHANGED <<storeVars, dbVars, cliVars, fate>>

ProbeQuar(p) == LET k == key[p] IN
    /\ pc[p] = "probeQuar"
    /\ \/ quar[k] # Nothing /\ UNCHANGED envVars /\ Goto(p, "ifProd")
       \/ /\ (quar[k] = Nothing /\ UNCHANGED envVars) \/ Fault
          /\ Finish(p)
    /\ UNCHANGED <<storeVars, dbVars, cliVars, fate>>

IfProd(p) ==
    /\ pc[p] = "ifProd"
    /\ \/ prod[key[p]] # Nothing /\ UNCHANGED envVars /\ Goto(p, "remove")
       \/ prod[key[p]] = Nothing /\ UNCHANGED envVars /\ Goto(p, "ifQuar")
       \/ Fault /\ Goto(p, "ifQuar")
    /\ UNCHANGED <<storeVars, dbVars, cliVars, fate>>

\* The production object, for the owner and for crm-collab.
RemoveProd(p) == LET k == key[p] IN
    /\ pc[p] = "remove"
    /\ \/ /\ prod[k] # Nothing /\ Remove(prod, k)
          /\ fate' = [fate EXCEPT ![k] = "removed"]
          /\ \/ /\ UNCHANGED envVars
                /\ Goto(p, IF op[p] = "delete" THEN "row" ELSE "ifQuar")
             \/ Fault /\ Finish(p)
       \/ prod[k] = Nothing /\ UNCHANGED <<prod, fate, envVars>> /\ Finish(p)
       \/ Fault /\ UNCHANGED <<prod, fate>> /\ Finish(p)
    /\ UNCHANGED <<quar, dbVars, cliVars>>

\* Beside what p has removed there is another copy of its key, in quarantine
\* or in the hands of another procedure, or another row, there or on its way.
Survives(p) == LET k == key[p] IN
    \/ quar'[k] # Nothing
    \/ row[k].id \notin {0, found[p]}
    \/ \E q \in Procs \ {p} : key[q] = k /\ pc[q] \in {"scan", "upload", "insert"}

\* The answer is that the file is deleted.
Answer(p) ==
    /\ fate' = [fate EXCEPT ![key[p]] =
                  IF @ = "removed" /\ ~Survives(p) THEN "deleted" ELSE "answered"]
    /\ Finish(p)

IfQuar(p) ==
    /\ pc[p] = "ifQuar"
    /\ UNCHANGED <<storeVars, dbVars, cliVars>>
    /\ \/ /\ quar[key[p]] # Nothing /\ UNCHANGED <<fate, envVars>>
          /\ Goto(p, "removeQuar")
       \/ quar[key[p]] = Nothing /\ UNCHANGED envVars /\ Answer(p)
       \/ Fault /\ Answer(p)

RemoveQuar(p) == LET k == key[p] IN
    /\ pc[p] = "removeQuar"
    /\ \/ quar[k] # Nothing /\ Remove(quar, k) /\ UNCHANGED envVars /\ Answer(p)
       \/ /\ quar[k] # Nothing /\ Remove(quar, k) /\ Fault /\ Finish(p)
          /\ Clearing(k)
       \/ quar[k] = Nothing /\ UNCHANGED <<quar, fate, envVars>> /\ Finish(p)
       \/ Fault /\ UNCHANGED <<quar, fate>> /\ Finish(p)
    /\ UNCHANGED <<prod, dbVars, cliVars>>

\* Mutation: the deletion of the row is not awaited, and fails.
DeleteRowLater(p) ==
    /\ pc[p] = "row"
    /\ UNCHANGED <<storeVars, dbVars, cliVars, envVars>>
    /\ Answer(p)

\* By id: a row inserted since the selection stays.
DeleteRow(p) == LET k == key[p] IN
    /\ pc[p] = "row"
    /\ UNCHANGED <<storeVars, inserted, cliVars>>
    /\ \/ /\ row' = IF row[k].id = found[p]
                      THEN [row EXCEPT ![k] = [id |-> 0, size |-> Nothing]] ELSE row
          /\ \/ UNCHANGED envVars /\ Answer(p)
             \/ Fault /\ Finish(p) /\ UNCHANGED fate
       \/ Fault /\ UNCHANGED <<row, fate>> /\ Finish(p)

\* The rows of the user, then their objects, whose deletion may fail
\* unnoticed, then every row the user has by then.
ListRows(p) ==
    /\ pc[p] = "list"
    /\ LET mine == {k \in Personal : row[k].id # 0} IN
         IF mine = {} THEN Finish(p)
         ELSE /\ todo' = [todo EXCEPT ![p] = {it \in Item : it.key \in mine /\ it.age = "old"}]
              /\ pc' = [pc EXCEPT ![p] = "wipe"]
              /\ UNCHANGED <<op, key, size, buf, found>>
    /\ UNCHANGED <<storeVars, dbVars, cliVars, fate, envVars>>

WipeObject(p) == \E it \in todo[p] :
    /\ pc[p] = "wipe"
    /\ todo' = [todo EXCEPT ![p] = @ \ {it}]
    /\ \/ /\ Remove(prod, it.key) /\ (UNCHANGED envVars \/ Fault)
          /\ fate' = [fate EXCEPT ![it.key] = "removed"]
       \/ UNCHANGED <<prod, fate>> /\ Fault
    /\ UNCHANGED <<quar, dbVars, op, pc, key, size, buf, found, cliVars>>

WipeRows(p) ==
    /\ pc[p] = "wipe" /\ todo[p] = {}
    /\ \/ /\ row' = [k \in Keys |-> IF k \in Personal THEN [id |-> 0, size |-> Nothing]
                                    ELSE row[k]]
          /\ UNCHANGED envVars \/ Fault
       \/ UNCHANGED row /\ Fault
    /\ Finish(p)
    /\ UNCHANGED <<storeVars, inserted, cliVars, fate>>

Crash(p) ==
    /\ pc[p] # "idle" /\ crashes < MaxCrashes
    /\ crashes' = crashes + 1
    /\ Finish(p)
    /\ UNCHANGED <<storeVars, dbVars, cliVars, fate, faults>>

-----------------------------------------------------------------------------

Start(p) ==
    \/ \E k \in Keys, c \in Contents : Confirm(p, k, c)
    \/ \E k \in Keys : ResolveMetadata(p, k) \/ Delete(p, k) \/ CollabDelete(p, k)
    \/ Anonymize(p)

Promotion(p) == Find(p) \/ Get(p) \/ Scan(p) \/ Upload(p) \/ Clear(p) \/ Drop(p)
Sweeping(p)  == Sweep(p) \/ SweepItem(p) \/ SweepEnd(p) \/ Expire(p)
Deletion(p)  == \/ Select(p) \/ Probe(p) \/ ProbeQuar(p) \/ IfProd(p) \/ RemoveProd(p)
                \/ IfQuar(p) \/ RemoveQuar(p) \/ DeleteRow(p)
                \/ ListRows(p) \/ WipeObject(p) \/ WipeRows(p)

\* Whatever a procedure under way, or a sweeper's timer, does next.
Proceed(p) ==
    Look(p) \/ Wait(p) \/ Meta(p) \/ Insert(p) \/ Promotion(p) \/ Sweeping(p) \/ Deletion(p)

Client(k) == OpenPar(k) \/ ClosePar(k) \/ Age(k) \/ \E c \in Contents : Put(k, c)

Next ==
    \/ \E k \in Keys : Client(k)
    \/ \E p \in Procs : Start(p) \/ Proceed(p) \/ Crash(p)

Spec == Init /\ [][Next]_vars

\* Time passes and the event loop runs what it has begun.
Fairness ==
    /\ \A k \in Keys : WF_vars(ClosePar(k)) /\ WF_vars(Age(k))
    /\ \A p \in Procs : WF_vars(Proceed(p))

FairSpec == Spec /\ Fairness
-----------------------------------------------------------------------------

Maybe == Contents \cup {Nothing}

Fates == {"kept", "cleared", "removed", "restored", "deleted", "answered"}

StoreType == quar \in [Keys -> Maybe] /\ prod \in [Keys -> Maybe]

RowType == inserted \in Nat /\ row \in [Keys -> [id : 0..inserted, size : Maybe]]

ClientType ==
    /\ age \in [Keys -> {"young", "ripe", "old"}]
    /\ par \in [Keys -> {"none", "open", "closed"}]
    /\ sent \in [Keys -> Seq(Contents)]
    /\ fate \in [Keys -> Fates]

Places ==
    {"idle", "look", "wait", "meta", "insert", "find", "get", "scan", "upload", "clear", "drop",
     "next", "expire", "select", "remove", "row", "probe", "probeQuar", "ifProd", "ifQuar",
     "removeQuar", "list", "wipe", "hung"}

Tasks == {"none", "confirm", "metadata", "delete", "collabDelete", "anonymize", "sweep"}

ProcType ==
    /\ op \in [Procs -> Tasks] /\ pc \in [Procs -> Places]
    /\ key \in [Procs -> Keys] /\ size \in [Procs -> Maybe] /\ buf \in [Procs -> Maybe]
    /\ todo \in [Procs -> SUBSET Item]

FoundType == found \in [Procs -> 0..inserted]

BoundType ==
    /\ \A k \in Keys : Len(sent[k]) <= MaxPuts
    /\ crashes \in 0..MaxCrashes /\ faults \in 0..MaxFaults

\* Every variable has its type; in particular a row, and the row a deletion has
\* selected, carry an id the sequence has handed out.
TypeOK == StoreType /\ RowType /\ ClientType /\ ProcType /\ FoundType /\ BoundType

\* Only contents that passed the scan are ever in production or registered,
\* whatever is uploaded to the key while it is being scanned and however many
\* promotions of it overlap (collab-document.service.ts
\* tryPromoteFromQuarantine, run-quarantine-scan.ts).
ProductionIsClean ==
    \A k \in Keys :
        /\ prod[k] \in Clean \cup {Nothing}
        /\ row[k].id # 0 => row[k].size \in Clean

\* A clean document uploaded once is in quarantine or in production until
\* someone removes it or it grows too old: no overlap of promotions, no error
\* and no crash loses it (tryPromoteFromQuarantine, runQuarantineScan).
UploadKept ==
    \A k \in Keys, c \in Clean :
        sent[k] = <<c>> /\ fate[k] = "kept" => c \in {quar[k], prod[k]}

\* As long as one sweeper is not caught in a scan that never ends.
Drains(k) ==
    quar[k] # Nothing ~> quar[k] = Nothing \/ \A p \in Sweepers : pc[p] = "hung"

\* A scan that is begun again and again gives a verdict at last.
Answering == \A p \in Sweepers : SF_vars(ScanAnswers(p))

\* The quarantine is drained while some sweeper goes on: an object with a time
\* is promoted or removed even when ClamAV never gives a verdict, because it
\* grows too old; one without only if ClamAV does.  A sweep that an error ends
\* keeps no object from the sweeps that follow (run-quarantine-scan.ts lines
\* 33-67, media.worker.ts tickQuarantine).
QuarantineDrains ==
    /\ \A k \in Keys \ Undated : Drains(k)
    /\ Answering => \A k \in Undated : Drains(k)

\* A deletion that is answered lasts, until the next upload, unless at that
\* time another procedure had the content in hand or was about to register it:
\* no object is left anywhere, and no row (document.service.ts deleteDocument,
\* collab-document.service.ts deleteDocumentForCollabCommand).
DeletionLasts ==
    \A k \in Keys : fate[k] = "deleted" =>
        prod[k] = Nothing /\ quar[k] = Nothing /\ row[k].id = 0

\* A document that is registered has its object in production, however many
\* confirmations overlap.  A row without object is one whose removal is under
\* way or has broken off, or that was registered while a removal went on
\* (document.service.ts confirmDocumentUpload, deleteDocument, anonymizeUserPII).
RowHasObject ==
    \A k \in Keys : row[k].id # 0 /\ prod[k] = Nothing /\ Len(sent[k]) = 1 =>
        \/ fate[k] \in {"restored", "answered"}
        \/ /\ fate[k] = "removed"
           /\ faults + crashes > 0 \/ \E p \in Procs : pc[p] \in {"row", "wipe"}

\* The documents are what DocumentLife promises of them.
Uploaded(k)   == {sent[k][n] : n \in DOMAIN sent[k]}
Registered(k) == IF row[k].id = 0 THEN Nothing ELSE row[k].size

Life == INSTANCE DocumentLife WITH
    uploaded   <- [k \in Keys |-> Uploaded(k)],
    available  <- prod,
    registered <- [k \in Keys |-> Registered(k)]

\* Whatever promotions, confirmations, deletions and sweeps overlap, every step
\* of theirs is a step of the promise or leaves it alone: no content reaches
\* another key, unscanned, or the register without having been uploaded, and no
\* registration is replaced (collab-document.service.ts, document.service.ts,
\* run-quarantine-scan.ts).
ImplementsLife == Life!Spec
=============================================================================

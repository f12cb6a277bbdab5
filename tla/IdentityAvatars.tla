--------------------------- MODULE IdentityAvatars ---------------------------
(***************************************************************************)
(* What crm-media keeps of one user besides documents: the avatar, left    *)
(* over avatar rows of media_assets, and the e-mail address in the audit   *)
(* log.  The identity consumer assigns a default avatar on user.registered *)
(* and purges on user.deleted; the user saves presets over HTTP meanwhile, *)
(* and an operator may run the script that gives one to users without.     *)
(*                                                                         *)
(* The consumer is the one of CommandStream with two differences that      *)
(* matter here: an event that fails too often is logged and acknowledged,  *)
(* and nothing replays it.  Of the protocol this module keeps that a fresh *)
(* event is delivered in order, a pending one any time again.              *)
(***************************************************************************)
EXTENDS Integers, Sequences

CONSTANTS
    Sub,        \* the user's userSub, by which identity events name them
    Alias,      \* their userId, when it differs from the sub
    Choices,    \* presets the user may choose
    Consumers,  \* replicas of the identity consumer
    Calls,      \* calls of saveAvatarPreset in progress
    NoChoice,
    MaxRetries, \* maxRetries of the consumer
    MaxSaves,   \* bound: presets saved, and runs of the script
    MaxSlow,    \* bound: handlers slower than pendingIdleMs
    MaxFaults,  \* bound: database or Redis calls that fail
    MaxCrashes  \* bound: consumers that die

ASSUME IdentityConstantsOK ==
    /\ Sub \notin Alias
    /\ NoChoice \notin Choices \cup {"none", "default", "planned"}
    /\ Choices \cap {"none", "default", "planned"} = {}
    /\ "script" \notin Calls
    /\ MaxRetries \in Nat \ {0} /\ MaxSaves \in Nat /\ MaxSlow \in Nat
    /\ MaxFaults \in Nat /\ MaxCrashes \in Nat

VARIABLES
    event,  \* the two events of the user on stream:auth.identity
    hand,   \* what a consumer is doing, with which event
    call,   \* what a call of saveAvatarPreset, or the script, is doing
    avatar, \* user_avatars
    legacy, \* whether media_assets still has avatar rows
    named,  \* whether the audit log names the user
    chosen, \* whether a preset has been stored under the sub
    raced,  \* whether that was while the script had the user on its list
    quiet,  \* whether the user is being deleted with nothing else under way for
            \* them, and so far without a failure that nobody makes good
    saves, slow, faults, crashes

rowVars == <<avatar, legacy, named, chosen, raced, quiet>>
envVars == <<saves, slow, faults, crashes>>
vars == <<event, hand, call, rowVars, envVars>>

Names   == {Sub} \cup Alias
Writers == Calls \cup {"script"}
Events == {"registered", "deleted"}
Free   == [pc |-> "idle", event |-> "registered", seen |-> 1]
NoCall == [pc |-> "idle", todo |-> {}, name |-> Sub, choice |-> NoChoice]

Init ==
    /\ event = [e \in Events |-> [status |-> "absent", count |-> 0]]
    /\ hand = [h \in Consumers |-> Free] /\ call = [c \in Writers |-> NoCall]
    /\ avatar = [n \in Names |-> "none"] /\ legacy \in [Names -> BOOLEAN]
    /\ named = FALSE /\ chosen = FALSE /\ raced = FALSE /\ quiet = FALSE
    /\ saves = 0 /\ slow = 0 /\ faults = 0 /\ crashes = 0

Fault == faults < MaxFaults /\ faults' = faults + 1 /\ UNCHANGED <<saves, slow, crashes>>

-----------------------------------------------------------------------------
(* The stream.                                                              *)

Undisturbed ==
    /\ event["registered"].status = "acked"
    /\ \A h \in Consumers : hand[h].pc = "idle"
    /\ \A c \in Writers : call[c].pc = "idle"

\* crm-auth tells that the user has registered, later that they are deleted.
Emit(e) ==
    /\ event[e].status = "absent"
    /\ e = "deleted" => event["registered"].status # "absent"
    /\ event' = [event EXCEPT ![e].status = "fresh"]
    /\ quiet' = (e = "deleted" /\ Undisturbed)
    /\ UNCHANGED <<hand, call, avatar, legacy, named, chosen, raced, envVars>>

\* The consumer reads how often the event was delivered before it handles it.
Hold(h, e, seen) ==
    /\ event' = [event EXCEPT ![e] = [status |-> "pending", count |-> @.count + 1]]
    /\ hand' = [hand EXCEPT ![h] = [pc |-> IF e = "registered" THEN "assign" ELSE "assets",
                                    event |-> e, seen |-> seen]]

\* Mutation: a delivery counts for two.
HoldCountedTwice(h, e) == Hold(h, e, event[e].count + 2) /\ UNCHANGED faults

\* When that read fails the count is taken to be 1.
HoldCounted(h, e) == \/ Hold(h, e, event[e].count + 1) /\ UNCHANGED faults
                     \/ Hold(h, e, 1) /\ faults < MaxFaults /\ faults' = faults + 1

Deliver(h, e) ==
    /\ hand[h].pc = "idle" /\ event[e].status = "fresh"
    /\ e = "deleted" => event["registered"].status # "fresh"
    /\ HoldCounted(h, e)
    /\ UNCHANGED <<call, rowVars, saves, slow, crashes>>

Held(e) == \E h \in Consumers : hand[h].pc # "idle" /\ hand[h].event = e

\* A pending event is taken over after 30 seconds, from a consumer that has
\* failed or died, or is only slow.
Reclaim(h, e) ==
    /\ hand[h].pc = "idle" /\ event[e].status = "pending"
    /\ \/ ~Held(e) /\ UNCHANGED slow
       \/ Held(e) /\ slow < MaxSlow /\ slow' = slow + 1
    /\ HoldCounted(h, e)
    /\ UNCHANGED <<call, rowVars, saves, crashes>>

Ack(h) ==
    /\ event' = [event EXCEPT ![hand[h].event].status = "acked"]
    /\ hand' = [hand EXCEPT ![h] = Free]

Step(h, pc) == hand' = [hand EXCEPT ![h].pc = pc] /\ UNCHANGED event

Leave(h) == hand' = [hand EXCEPT ![h] = Free] /\ UNCHANGED event

\* A statement that fails may have taken effect: its answer was lost.
Fail(h) == Fault /\ Step(h, "failed")

\* Mutation: a failed event is acknowledged at once.
GiveUpAtOnce(h) ==
    /\ hand[h].pc = "failed" /\ Ack(h)
    /\ UNCHANGED <<call, rowVars, envVars>>

\* The handler has thrown: the event is left for another try or, the last
\* time, handed to handleDlq, which only logs it, and acknowledged.
GiveUp(h) ==
    /\ hand[h].pc = "failed"
    /\ \/ hand[h].seen < MaxRetries /\ Leave(h) /\ UNCHANGED <<quiet, envVars>>
       \/ /\ hand[h].seen >= MaxRetries /\ Ack(h) /\ UNCHANGED envVars
          /\ quiet' = (quiet /\ hand[h].event # "deleted")
       \/ hand[h].seen >= MaxRetries /\ Fault /\ Leave(h) /\ UNCHANGED quiet
    /\ UNCHANGED <<call, avatar, legacy, named, chosen, raced>>

-----------------------------------------------------------------------------
(* handleUserRegistered.                                                    *)

\* Mutation: the default replaces what is there.
AssignAnyway(h) ==
    /\ hand[h].pc = "assign"
    /\ avatar' = [avatar EXCEPT ![Sub] = "default"]
    /\ Step(h, "done")
    /\ UNCHANGED <<call, legacy, named, chosen, raced, quiet, envVars>>

\* onConflictDoNothing: a chosen avatar stays.
Assign(h) ==
    /\ hand[h].pc = "assign"
    /\ LET put == [avatar EXCEPT ![Sub] = IF @ = "none" THEN "default" ELSE @] IN
          \/ avatar' = put /\ Step(h, "done") /\ UNCHANGED envVars
          \/ avatar' \in {put, avatar} /\ Fail(h)
    /\ UNCHANGED <<call, legacy, named, chosen, raced, quiet>>

-----------------------------------------------------------------------------
(* handleUserDeleted: anonymizeUserPII, for the sub.                        *)

\* Mutation: a user without left-over rows has nothing else to remove.
WipeAssetsIfAny(h) ==
    /\ hand[h].pc = "assets"
    /\ legacy' = [legacy EXCEPT ![Sub] = FALSE]
    /\ Step(h, IF legacy[Sub] THEN "avatar" ELSE "done")
    /\ UNCHANGED <<call, avatar, named, chosen, raced, quiet, envVars>>

\* The rows are selected, their objects removed as far as that succeeds, and
\* the rows deleted; nothing adds such a row meanwhile.
WipeAssets(h) ==
    /\ hand[h].pc = "assets"
    /\ LET wiped == [legacy EXCEPT ![Sub] = FALSE] IN
          \/ legacy' = wiped /\ Step(h, "avatar") /\ UNCHANGED envVars
          \/ legacy' \in {wiped, legacy} /\ Fail(h)
    /\ UNCHANGED <<call, avatar, named, chosen, raced, quiet>>

\* An error here is swallowed.
WipeAvatar(h) ==
    /\ hand[h].pc = "avatar"
    /\ \/ /\ avatar' = [avatar EXCEPT ![Sub] = "none"] /\ chosen' = FALSE
          /\ UNCHANGED <<quiet, envVars>>
       \/ Fault /\ quiet' = FALSE /\ UNCHANGED <<avatar, chosen>>
    /\ Step(h, "audit")
    /\ UNCHANGED <<call, legacy, named, raced>>

Anonymize(h) ==
    /\ hand[h].pc = "audit"
    /\ \/ named' = FALSE /\ Step(h, "done") /\ UNCHANGED envVars
       \/ named' \in {FALSE, named} /\ Fail(h)
    /\ UNCHANGED <<call, avatar, legacy, chosen, raced, quiet>>

\* The metrics counter cannot fail the handler; the acknowledgement can.
Done(h) ==
    /\ hand[h].pc = "done"
    /\ \/ Ack(h) /\ UNCHANGED envVars
       \/ Fail(h)
    /\ UNCHANGED <<call, rowVars>>

Crash(h) ==
    /\ hand[h].pc # "idle" /\ crashes < MaxCrashes
    /\ crashes' = crashes + 1 /\ Leave(h)
    /\ UNCHANGED <<call, rowVars, saves, slow, faults>>

-----------------------------------------------------------------------------
(* saveAvatarPreset: one upsert and one purge for each name of the user,    *)
(* then the audit entry.                                                    *)

\* crm-auth ends the sessions of a user it deletes; a call under way goes on.
Save(c, v) ==
    /\ call[c].pc = "idle" /\ saves < MaxSaves
    /\ event["deleted"].status = "absent"
    /\ call' = [call EXCEPT ![c] = [pc |-> "put", todo |-> Alias, name |-> Sub, choice |-> v]]
    /\ saves' = saves + 1
    /\ UNCHANGED <<event, hand, rowVars, slow, faults, crashes>>

\* A call returns or throws; the script goes on to its last statement.
Over(c) == call' = [call EXCEPT ![c] = IF c \in Calls THEN NoCall
                                       ELSE [NoCall EXCEPT !.pc = "residue"]]

Put(c) == LET n == call[c].name IN
    /\ call[c].pc = "put"
    /\ \/ /\ avatar' = [avatar EXCEPT ![n] = call[c].choice]
          /\ chosen' = (chosen \/ (c \in Calls /\ n = Sub))
          /\ raced' = (raced \/ (c \in Calls /\ n = Sub /\ call["script"].pc # "idle"))
          /\ \/ call' = [call EXCEPT ![c].pc = "purge"] /\ UNCHANGED envVars
             \/ Fault /\ Over(c)
       \/ Fault /\ UNCHANGED <<avatar, chosen, raced>> /\ Over(c)
    /\ UNCHANGED <<event, hand, legacy, named, quiet>>

\* A purge that fails is only logged.
Purge(c) == LET n == call[c].name IN
    /\ call[c].pc = "purge"
    /\ \/ legacy' = [legacy EXCEPT ![n] = FALSE] /\ UNCHANGED envVars
       \/ Fault /\ UNCHANGED legacy
    /\ \/ call[c].todo = {} /\ call' = [call EXCEPT ![c].pc = "audit"]
       \/ \E m \in call[c].todo :
             call' = [call EXCEPT ![c].pc = "put", ![c].name = m, ![c].todo = @ \ {m}]
    /\ UNCHANGED <<event, hand, avatar, named, chosen, raced, quiet>>

Log(c) ==
    /\ call[c].pc = "audit"
    /\ \/ named' = TRUE /\ UNCHANGED envVars
       \/ Fault /\ UNCHANGED named
    /\ Over(c)
    /\ UNCHANGED <<event, hand, avatar, legacy, chosen, raced, quiet>>

-----------------------------------------------------------------------------
(* migrate-user-avatars, without --all and --dry-run.                       *)

\* What the script has in mind for a user, whichever preset that is.
Plan(n) == [pc |-> "put", todo |-> Names \ {n}, name |-> n, choice |-> "planned"]

\* The user is on the list when neither of the names has a row; the preset is
\* saved under the id first, which may be the sub.
Fetch ==
    /\ call["script"].pc = "idle" /\ saves < MaxSaves
    /\ event["registered"].status # "absent" /\ event["deleted"].status = "absent"
    /\ \A n \in Names : avatar[n] = "none"
    /\ \E n \in IF Alias = {} THEN {Sub} ELSE Alias :
          call' = [call EXCEPT !["script"] = Plan(n)]
    /\ saves' = saves + 1
    /\ UNCHANGED <<event, hand, rowVars, slow, faults, crashes>>

\* purgeResidualMediaAvatars: what is left of every user; an error is swallowed.
Residue ==
    /\ call["script"].pc = "residue"
    /\ \/ legacy' = [n \in Names |-> FALSE] /\ UNCHANGED envVars
       \/ Fault /\ UNCHANGED legacy
    /\ call' = [call EXCEPT !["script"] = NoCall]
    /\ UNCHANGED <<event, hand, avatar, named, chosen, raced, quiet>>

-----------------------------------------------------------------------------

Handle(h) ==
    Assign(h) \/ WipeAssets(h) \/ WipeAvatar(h) \/ Anonymize(h) \/ Done(h) \/ GiveUp(h)

Next ==
    \/ \E e \in Events : Emit(e)
    \/ \E h \in Consumers :
          Handle(h) \/ Crash(h) \/ \E e \in Events : Deliver(h, e) \/ Reclaim(h, e)
    \/ \E c \in Calls, v \in Choices : Save(c, v)
    \/ \E c \in Writers : Put(c) \/ Purge(c) \/ Log(c)
    \/ Fetch \/ Residue

Spec == Init /\ [][Next]_vars

\* The consumers run, and docker restarts one that died.
Fairness ==
    /\ \A h \in Consumers : WF_vars(Handle(h))
    /\ \A e \in Events : /\ WF_vars(\E h \in Consumers : Deliver(h, e))
                         /\ WF_vars(\E h \in Consumers : ~Held(e) /\ Reclaim(h, e))

FairSpec == Spec /\ Fairness
-----------------------------------------------------------------------------

\* Every variable has its type; an event is delivered again only for an error,
\* a death or a slow handler.
TypeOK ==
    /\ event \in [Events -> [status : {"absent", "fresh", "pending", "acked"},
                             count : 0..(1 + MaxCrashes + MaxSlow + MaxFaults)]]
    /\ hand \in [Consumers -> [pc : {"idle", "assign", "assets", "avatar", "audit", "done",
                                     "failed"},
                               event : Events, seen : 1..(1 + MaxCrashes + MaxSlow + MaxFaults)]]
    /\ call \in [Writers -> [pc : {"idle", "put", "purge", "audit", "residue"},
                             todo : SUBSET Names, name : Names,
                             choice : Choices \cup {NoChoice, "planned"}]]
    /\ avatar \in [Names -> Choices \cup {"none", "default", "planned"}]
    /\ legacy \in [Names -> BOOLEAN] /\ {named, chosen, raced, quiet} \subseteq BOOLEAN
    /\ saves \in 0..MaxSaves /\ slow \in 0..MaxSlow
    /\ faults \in 0..MaxFaults /\ crashes \in 0..MaxCrashes

\* A preset the user has saved is not replaced by the default, however late or
\* often user.registered is delivered, nor by the script's choice, unless it
\* was saved after the script had selected the user
\* (identity-event.worker.ts lines 82-92, migrate-user-avatars.ts).
ChoiceKept ==
    chosen => \/ avatar[Sub] \in Choices
              \/ avatar[Sub] = "planned" /\ raced

\* Once the deletion of a user is acknowledged nothing under their sub is left,
\* through deaths, slow consumers and failures that are tried again, unless a
\* registration, a call or the script was under way for them when they were
\* deleted, or a failure was not made good: the swallowed one of the avatar's
\* row, or three tries.  Of the row under another id of the user it says
\* nothing: the handler never removes that one (identity-event.worker.ts
\* handleUserDeleted, document.service.ts anonymizeUserPII).
NothingLeft ==
    event["deleted"].status = "acked" /\ quiet =>
        avatar[Sub] = "none" /\ ~legacy[Sub] /\ ~named

\* Deaths, slow handlers and failed calls so far.
Used == crashes + slow + faults

\* user.registered is acknowledged for the avatar it has stored or found, and
\* without one only after as many deaths, slow handlers and errors as there are
\* tries: none of them is charged twice, however replicas overlap
\* (identity-event.worker.ts, event-consumer.ts processMessages).
AckedIsAssigned ==
    event["registered"].status = "acked" /\ event["deleted"].status = "absent"
        => avatar[Sub] # "none" \/ Used >= MaxRetries

\* A user who registers gets a stored avatar, unless deleted meanwhile: the
\* event is tried again until it is handled (docs/DOMAIN.md section 1).
AvatarAssigned ==
    event["registered"].status = "fresh"
        ~> avatar[Sub] # "none" \/ event["deleted"].status # "absent"
=============================================================================

--------------------------- MODULE CommandDelivery ---------------------------
(***************************************************************************)
(* What the media command channel promises crm-collab: a command, once on  *)
(* the stream, is closed only after something has come of it, an answer, a *)
(* dead letter, or, when even the dead letter could not be written, a log  *)
(* line.  What has come of it is never taken back, and a closed command    *)
(* stays closed, whatever a slow replica still reports about it.           *)
(***************************************************************************)
CONSTANT Entries

VARIABLES
    accepted,  \* the entries that carry a command
    outcome,   \* what has come of each of them
    closed     \* the entries no replica will be handed again

vars == <<accepted, outcome, closed>>

Outcomes == {"answered", "dead", "logged"}

Init ==
    /\ accepted = {}
    /\ outcome = [e \in Entries |-> {}]
    /\ closed = {}

Accept(e) ==
    /\ e \notin accepted
    /\ accepted' = accepted \cup {e}
    /\ UNCHANGED <<outcome, closed>>

\* Two at once: an append whose answer is lost leaves a dead letter and a log
\* line.
Report(e, what) ==
    /\ e \in accepted
    /\ outcome' = [outcome EXCEPT ![e] = @ \cup what]
    /\ UNCHANGED <<accepted, closed>>

Close(e) ==
    /\ e \in accepted \ closed
    /\ outcome[e] # {}
    /\ closed' = closed \cup {e}
    /\ UNCHANGED <<accepted, outcome>>

Next ==
    \E e \in Entries :
        Accept(e) \/ Close(e) \/ \E what \in SUBSET Outcomes : Report(e, what)

Spec == Init /\ [][Next]_vars
=============================================================================

---------------------------- MODULE DocumentLife ----------------------------
(***************************************************************************)
(* What the document service promises of its keys, whoever promotes,       *)
(* registers and deletes at the same time: what can be fetched under a key *)
(* is a clean content that was uploaded to that key; so is what is         *)
(* registered under it; a registration is made once and stays as it was    *)
(* made until it is removed; and a step touches one key's object, or the   *)
(* register, never both.                                                   *)
(***************************************************************************)
CONSTANTS Keys, Contents, Clean, Nothing

VARIABLES
    uploaded,   \* the contents clients have uploaded to a key
    available,  \* the content that can be fetched
    registered  \* the content that is registered

vars == <<uploaded, available, registered>>

Init ==
    /\ uploaded = [k \in Keys |-> {}]
    /\ available = [k \in Keys |-> Nothing]
    /\ registered = [k \in Keys |-> Nothing]

Accept(k, c) ==
    /\ uploaded' = [uploaded EXCEPT ![k] = @ \cup {c}]
    /\ UNCHANGED <<available, registered>>

Publish(k, c) ==
    /\ c \in uploaded[k] \cap Clean
    /\ available' = [available EXCEPT ![k] = c]
    /\ UNCHANGED <<uploaded, registered>>

Register(k, c) ==
    /\ registered[k] = Nothing
    /\ c \in uploaded[k] \cap Clean
    /\ registered' = [registered EXCEPT ![k] = c]
    /\ UNCHANGED <<uploaded, available>>

Withdraw(k) ==
    /\ available' = [available EXCEPT ![k] = Nothing]
    /\ UNCHANGED <<uploaded, registered>>

\* One document's row, or all of a user's.
Deregister(S) ==
    /\ registered' = [k \in Keys |-> IF k \in S THEN Nothing ELSE registered[k]]
    /\ UNCHANGED <<uploaded, available>>

Next ==
    \/ \E k \in Keys, c \in Contents : Accept(k, c) \/ Publish(k, c) \/ Register(k, c)
    \/ \E k \in Keys : Withdraw(k)
    \/ \E S \in SUBSET Keys : Deregister(S)

Spec == Init /\ [][Next]_vars
=============================================================================

---------------------------- MODULE MCTokenGate ----------------------------
(* Instances of TokenGate: a token under each key, of different age; and     *)
(* under one key tokens without an iat, without an exp and one that is not   *)
(* genuine.  Requests are interchangeable.                                   *)
EXTENDS TokenGate, TLC

CONSTANTS k1, k2

OldToken    == [id |-> 1, kid |-> k1, iat |-> 0, exp |-> 2, genuine |-> TRUE]
NewToken    == [id |-> 2, kid |-> k2, iat |-> 1, exp |-> 3, genuine |-> TRUE]
FalseToken  == [id |-> 3, kid |-> k1, iat |-> 0, exp |-> 3, genuine |-> FALSE]
GenuineTokens == {OldToken, NewToken}
OneKid        == {k1}
TwoKids       == {k1, k2}
SameKey       == {[OldToken EXCEPT !.iat = 1],
                  [NewToken EXCEPT !.kid = k1, !.iat = 0],
                  [id |-> 4, kid |-> k1, iat |-> 1, exp |-> 0, genuine |-> TRUE],
                  FalseToken}

RequestSymmetry == Permutations(Requests)
=============================================================================

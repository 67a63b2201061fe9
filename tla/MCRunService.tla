------------------------------ MODULE MCRunService -----------------------------
(***************************************************************************)
(* Small services for TLC: API callers that share a key, and one customer   *)
(* whose chat messages may answer or supersede a pending one.               *)
(***************************************************************************)
EXTENDS RunService

CONSTANTS q1, q2, q3, carol

\* Two callers who ask for the same under one key: the one repeats the other.
ApiOwner == [q \in {q1, q2} |-> Api]
ApiKey == [q \in {q1, q2} |-> "k1"]
SameBody == [q \in {q1, q2} |-> "transfer"]

\* Three messages of one customer under one key: two ask for the same, as a
\* client that repeats its message does, the other for something else.
ChatOwner == [q \in {q1, q2, q3} |-> carol]
ChatKey == [q \in {q1, q2, q3} |-> "k2"]
ChatBody == [q \in {q1, q2, q3} |-> IF q = q1 THEN "balance" ELSE "transfer"]
================================================================================

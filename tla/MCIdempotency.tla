---------------------------- MODULE MCIdempotency ----------------------------
(***************************************************************************)
(* A double submit of one note text (r1, r2 about the same lead) beside a  *)
(* request for the same text that names another lead (r3): one key.        *)
(***************************************************************************)
EXTENDS Idempotency, TLC

CONSTANTS r1, r2, r3, k1, leadA, leadB

MCKeyOf == [r \in Requests |-> k1]
MCLeadOf == [r \in Requests |-> IF r = r3 THEN leadB ELSE leadA]

\* Two requests for the same lead are interchangeable.
Symmetry == Permutations({r1, r2})
=============================================================================

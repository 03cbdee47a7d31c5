---------------------------- MODULE MCPromptSlots ----------------------------
(***************************************************************************)
(* Three judgements of one note: two asked for by one subject (r1, r2) and *)
(* one by another (r3).  They share the attempt counter, and r1 and r2 the *)
(* two windows.  The other constants serve the counterexample runs.        *)
(***************************************************************************)
EXTENDS PromptSlots, TLC

CONSTANTS r1, r2, r3, n1, s1, s2

MCNoteOf == [r \in Requests |-> n1]
MCSubjectOf == [r \in Requests |-> IF r = r3 THEN s2 ELSE s1]

\* The two judgements of one subject are interchangeable.
Symmetry == Permutations({r1, r2})
=============================================================================

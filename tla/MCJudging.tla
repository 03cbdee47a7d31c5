------------------------------ MODULE MCJudging ------------------------------
(***************************************************************************)
(* Notes of up to three words of ten, under the tenant files of MCScoring  *)
(* and under files with short-note tables and floors of their own.         *)
(***************************************************************************)
EXTENDS Judging, MCScoring

MCWidth == [s \in {"", "na", "cb", "no", "answer", "tmrw", "pm", "refund"} |->
              CASE s = "" -> 0 [] s \in {"answer", "refund"} -> 6
                [] s = "tmrw" -> 4 [] OTHER -> 2]

MCWords == {Plain("na"), Word("na", TRUE, FALSE), Plain("cb"), Plain("no"), Plain("answer"),
            Plain("tmrw"), Plain("refund"), Word("", TRUE, FALSE), Word("", FALSE, TRUE)}

Tables(codes, phrases, fillers) ==
    [short_note_codes |-> codes, short_note_phrases |-> phrases, short_note_fillers |-> fillers]

TableFiles ==
    {Tables({}, {}, {}), Tables({}, {<<Plain("no"), Plain("answer")>>, <<Plain("no")>>},
                                {Plain("tmrw"), Plain("cb")}),
     Tables({Plain("refund"), Plain("tmrw")}, {<<Plain("answer")>>}, {Plain("tmrw"), Plain("no")}),
     [min_note_chars |-> 10, min_note_tokens |-> 2, max_note_chars |-> 18]}

\* A code written with its attempt number, and a phrase left blank.
NumberedCode == {Tables({Word("na", TRUE, FALSE)}, {}, {})}
BlankPhrase == {Tables({}, {<<>>}, {Plain("tmrw")})}

JudgingFiles == MCFiles \cup TableFiles
AllFiles == JudgingFiles \cup NumberedCode \cup BlankPhrase
=============================================================================

------------------------------- MODULE Judging -------------------------------
(***************************************************************************)
(* One note from its first word to its score: a salesperson writes, the    *)
(* length gate stops it or lets it through, and a note that went through   *)
(* is answered about and scored as in Scoring.  Each state is a note as it *)
(* may be saved.                                                           *)
(***************************************************************************)
EXTENDS Scoring, LengthGate

CONSTANTS Words,      \* what may be written
          MaxWords    \* bound: words of a note before it is judged

ASSUME WordsAssumption == Words \subseteq AnyWord

VARIABLE text         \* the note, until it is judged; then what it says is in `note'

judgingVars == <<vars, text>>

Waits == judged = NotJudged

JudgingInit == Init /\ text = <<>>

Start(file) == Load(file) /\ UNCHANGED text

\* One more word, or punctuation after the last one.
Write(w) ==
    /\ Serving /\ Waits /\ Len(text) < MaxWords
    /\ text' = Append(text, w)
    /\ UNCHANGED vars
Punctuate ==
    /\ Serving /\ Waits /\ text # <<>> /\ ~text[Len(text)].point
    /\ text' = [text EXCEPT ![Len(text)].point = TRUE]
    /\ UNCHANGED vars

\* The first answers about a note the gate let through, or the same again.
Judge ==
    /\ Serving /\ (Waits => Gate(text, config) = "carry_on")
    /\ FirstAnswer
    /\ text' = <<>>

Rewrite == (\E c \in CheckNames : Better(c)) /\ UNCHANGED text

JudgingNext == \/ \E file \in Files : Start(file)
               \/ (\E w \in Words : Write(w)) \/ Punctuate
               \/ Judge \/ Rewrite

JudgingSpec == JudgingInit /\ [][JudgingNext]_judgingVars

-----------------------------------------------------------------------------
(* What must hold *)

Written == Serving /\ Waits

\* A word the tenant listed as a code, or a phrase of its from the first word on.
SaysACode(words) ==
    \E i \in DOMAIN words :
        words[i].stem # "" /\ \E n \in BOOLEAN : Word(words[i].stem, n, FALSE) \in
                                                    config.short_note_codes
SaysAPhrase(words) ==
    \E phrase \in config.short_note_phrases :
        phrase # <<>> /\ Len(words) >= Len(phrase)
            /\ \A i \in DOMAIN phrase : words[i] = phrase[i]

\* Three calls are paid for a note below the floor only if it says what came of
\* the contact: words that may follow an outcome are none (pipeline.py, register
\* item 137: "a note recording no outcome at all bought three paid calls").
OutcomeBeforeSpend ==
    Written /\ BelowFloor(text, config) /\ Gate(text, config) = "carry_on" =>
        SaysACode(ShortNoteWords(text)) \/ SaysAPhrase(ShortNoteWords(text))

\* What a note picks up in passing does not hide its outcome: a filler after it
\* or punctuation never turns a note that is judged into one that is asked about.
FillerKeepsOutcome ==
    [][ (Written /\ Written' /\ text # <<>> /\ Gate(text, config) = "carry_on"
            /\ \/ Punctuate
               \/ \E w \in Words : Write(w) /\ (~IsWord(w)
                                     \/ Stripped(w) \in config.short_note_fillers))
          => Gate(text', config) # "note_too_short" ]_judgingVars

\* What config.py says of the tables: "Codes take a trailing attempt number".
TenantCodesRecognised ==
    Serving => \A code \in config.short_note_codes :
                  BelowFloor(<<code>>, config) => Gate(<<code>>, config) = "carry_on"
=============================================================================

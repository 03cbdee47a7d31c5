------------------------------ MODULE LengthGate ------------------------------
(***************************************************************************)
(* What the pipeline makes of a note's text before it spends anything      *)
(* (structured_intelligence/pipeline.py _length_gate): a note below the    *)
(* floor is asked about with a fixed question, unless the tenant's tables  *)
(* recognise it as a known outcome; one above the ceiling is not scored.   *)
(*                                                                         *)
(* A word is its stem, whether digits trail it and whether punctuation     *)
(* does; the stem "" leaves bare digits or bare punctuation.  Words are    *)
(* compared folded, as the tables and the note are before any comparison.  *)
(***************************************************************************)
EXTENDS Integers, Sequences, FiniteSets, Functions

CONSTANTS Width      \* how many characters each stem has

ASSUME WidthAssumption == "" \in DOMAIN Width /\ Width \in [DOMAIN Width -> Nat]

AnyWord == [stem : DOMAIN Width, number : BOOLEAN, point : BOOLEAN]
Word(stem, number, point) == [stem |-> stem, number |-> number, point |-> point]
WordChars(w) == Width[w.stem] + (IF w.number THEN 1 ELSE 0) + (IF w.point THEN 1 ELSE 0)

\* len(text): the words and the spaces between them.
Chars(text) ==
    SumFunction([i \in DOMAIN text |-> WordChars(text[i])])
        + (IF text = <<>> THEN 0 ELSE Len(text) - 1)

Stripped(w) == [w EXCEPT !.point = FALSE]
IsWord(w) == w.stem # "" \/ w.number
\* The words among what is written, in their order.
WordsAt(text) == {i \in DOMAIN text : IsWord(text[i])}
Nth(places, k) == CHOOSE i \in places : Cardinality(places \cap 1..i) = k
\* mutant: a word keeps the punctuation after it.
ShortNoteWordsUnstripped(text) ==
    [k \in 1..Cardinality(WordsAt(text)) |-> text[Nth(WordsAt(text), k)]]
\* _short_note_words: nothing is left of a word that was punctuation.
ShortNoteWords(text) ==
    [k \in 1..Cardinality(WordsAt(text)) |-> Stripped(text[Nth(WordsAt(text), k)])]

\* _is_short_note_code: the code with or without an attempt number.
IsShortNoteCode(w, cfg) == w.stem # "" /\ Word(w.stem, FALSE, FALSE) \in cfg.short_note_codes
IsDigit(w) == w.stem = "" /\ w.number
AllFillers(words, cfg) == \A i \in DOMAIN words : words[i] \in cfg.short_note_fillers

Opens(phrase, words) ==
    Len(phrase) <= Len(words) /\ SubSeq(words, 1, Len(phrase)) = phrase
PhraseRecognised(words, cfg) ==
    \E phrase \in cfg.short_note_phrases :
        Opens(phrase, words) /\ AllFillers(SubSeq(words, Len(phrase) + 1, Len(words)), cfg)

EachAllowed(words, cfg) ==
    \A i \in DOMAIN words : \/ IsShortNoteCode(words[i], cfg) \/ IsDigit(words[i])
                            \/ words[i] \in cfg.short_note_fillers

\* mutant: nothing but fillers and numbers is an outcome too.
CodesRecognisedWithoutOne(words, cfg) == EachAllowed(words, cfg)
\* Codes, attempt numbers and fillers, at least one of them a code.
CodesRecognised(words, cfg) ==
    (\E i \in DOMAIN words : IsShortNoteCode(words[i], cfg)) /\ EachAllowed(words, cfg)

RecognisedShortNote(text, cfg) ==
    LET words == ShortNoteWords(text)
    IN  words # <<>> /\ (PhraseRecognised(words, cfg) \/ CodesRecognised(words, cfg))

BelowFloor(text, cfg) == Chars(text) < cfg.min_note_chars \/ Len(text) < cfg.min_note_tokens

Gate(text, cfg) ==
    CASE BelowFloor(text, cfg) /\ ~RecognisedShortNote(text, cfg) -> "note_too_short"
      [] ~BelowFloor(text, cfg) /\ Chars(text) > cfg.max_note_chars -> "note_too_long"
      [] OTHER -> "carry_on"
=============================================================================

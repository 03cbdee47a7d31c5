------------------------------ MODULE Scoring ------------------------------
(***************************************************************************)
(* The rubric: a tenant's file accepted or refused at startup, and the     *)
(* arithmetic from the model's yes/no answers to a total, a band, an       *)
(* advice and a verdict (structured_intelligence/config.py, scoring.py,    *)
(* decide.py).                                                             *)
(*                                                                         *)
(* The operators are the code's pure functions; the behaviour is a         *)
(* deployment that starts with one tenant file and then scores a note      *)
(* again and again, each rewrite earning one more yes.                     *)
(***************************************************************************)
EXTENDS Integers, FiniteSets, Sequences, TLC

CONSTANTS Files,                    \* what a unit_a section may say: records over the default
          NoteTypes,                \* the human types that occur
          DealSpecificsApplicable   \* ASSUMPTION[Q13]: FALSE until the backend names the field

VARIABLES config,    \* the rubric in force, or what startup made of the file
          note,      \* the note's type and the checks answered true
          judged     \* what scoring it gave

vars == <<config, note, judged>>

Components == {"what_happened", "client_said", "next_step_date", "deal_specifics", "clarity"}
Bands == <<"poor", "fair", "good", "excellent">>
Actions == <<"prompt_clarification", "accept_flag_prompt", "accept_silent">>

ChecksByComponent ==
    [what_happened  |-> {"wh_outcome", "wh_action"},
     client_said    |-> {"cs_present", "cs_own_terms"},
     next_step_date |-> {"ns_action", "ns_date", "ns_closure"},
     deal_specifics |-> {"ds_figures", "ds_subject", "ds_timing"},
     clarity        |-> {"cl_readable", "cl_substance"}]
CheckNames == UNION {ChecksByComponent[c] : c \in Components}

\* The short-note tables: words as LengthGate has them.
Plain(stem) == [stem |-> stem, number |-> FALSE, point |-> FALSE]
ShortNoteCodes == {Plain("na"), Plain("cb")}
ShortNotePhrases == {<<Plain("no"), Plain("answer")>>}
ShortNoteFillers == {Plain("tmrw"), Plain("pm")}

DefaultConfig ==
    [weights |-> [what_happened |-> 25, client_said |-> 20, next_step_date |-> 25,
                  deal_specifics |-> 20, clarity |-> 10],
     band_boundaries |-> <<<<"poor", 39>>, <<"fair", 69>>, <<"good", 84>>, <<"excellent", 100>>>>,
     accept_threshold |-> 70, flag_threshold |-> 40,
     min_note_chars |-> 15, min_note_tokens |-> 3, max_note_chars |-> 2000,
     short_note_codes |-> ShortNoteCodes, short_note_phrases |-> ShortNotePhrases,
     short_note_fillers |-> ShortNoteFillers,
     enforcement_mode |-> "advisory"]

\* The state before a file is read, and after a refused one.
Unread == [refused |-> FALSE]
Refused == [refused |-> TRUE]
Serving == config \notin {Unread, Refused}

NoNote == [type |-> "none", yes |-> {}]
\* Answers that did not answer the question: OutputValidationError.
Rejected == [outcome |-> "rejected"]
\* compute_score's ValueError.
Raised == [outcome |-> "raised"]
NotJudged == [outcome |-> "none"]

-----------------------------------------------------------------------------
(* The tenant file *)

\* mutant: closure counted as a third check.
FullMarksAtAll(c) == Cardinality(ChecksByComponent[c])

\* How many true checks earn the full weight: closure is a bypass, not a third.
FullMarksAt(c) == IF c = "next_step_date" THEN 2 ELSE Cardinality(ChecksByComponent[c])

\* An even split of the weight, rounded half up.
MarksByTrueCount(weight, c, n) ==
    LET full == FullMarksAt(c)
        earned == IF n < full THEN n ELSE full
    IN  (weight * earned * 2 + full) \div (2 * full)

\* The file over the default, and what its fields are read as.
Over(file) == file @@ DefaultConfig
Typed(cfg) ==
    /\ {cfg.min_note_chars, cfg.min_note_tokens} \subseteq Int
    /\ \A c \in DOMAIN cfg.weights : cfg.weights[c] \in Int
    /\ \A i \in DOMAIN cfg.band_boundaries : cfg.band_boundaries[i][2] \in Int
    /\ \A phrase \in cfg.short_note_phrases :
          phrase \in Seq([stem : STRING, number : BOOLEAN, point : BOOLEAN])

ASSUME SwitchAssumption == DealSpecificsApplicable \in BOOLEAN
ASSUME FilesAssumption == \A file \in Files : Typed(Over(file))

\* The sum of f over the components of S.
SumOver(f, S) ==
    LET term(c) == IF c \in S THEN f[c] ELSE 0
    IN  term("what_happened") + term("client_said") + term("next_step_date")
            + term("deal_specifics") + term("clarity")

\* The fields' own bounds.
FieldsAllowed(cfg) ==
    /\ {cfg.accept_threshold, cfg.flag_threshold} \subseteq 0..100
    /\ cfg.min_note_chars >= 1 /\ cfg.min_note_tokens >= 1 /\ cfg.max_note_chars \in 1..4000

Weighted(cfg) == {c \in Components : cfg.weights[c] # 0}
Ascending(uppers) ==
    /\ uppers[1] >= 0 /\ uppers[Len(uppers)] = 100
    /\ \A i \in 1..(Len(uppers) - 1) : uppers[i] < uppers[i + 1]

\* _check, each conjunct one of its refusals.
Check(cfg) ==
    /\ DOMAIN cfg.weights = Components /\ \A c \in Components : cfg.weights[c] >= 0
    /\ SumOver(cfg.weights, Components) = 100
    /\ \E c \in Weighted(cfg) : c # "deal_specifics" \/ DealSpecificsApplicable
    /\ [i \in DOMAIN cfg.band_boundaries |-> cfg.band_boundaries[i][1]] = Bands
    /\ Ascending([i \in DOMAIN cfg.band_boundaries |-> cfg.band_boundaries[i][2]])
    /\ cfg.flag_threshold < cfg.accept_threshold
    /\ cfg.min_note_chars < cfg.max_note_chars

Accepts(file) == FieldsAllowed(Over(file)) /\ Check(Over(file))

-----------------------------------------------------------------------------
(* The arithmetic *)

SuppressedComponents(type) ==
    IF type = "no_contact" THEN {"what_happened", "client_said", "deal_specifics"} ELSE {}

ApplicableComponents(type) ==
    {c \in Components \ SuppressedComponents(type) :
        c # "deal_specifics" \/ DealSpecificsApplicable}

ApplicableChecks(type) == UNION {ChecksByComponent[c] : c \in ApplicableComponents(type)}

\* validate_checks: an answer for each check asked, and for no other.
Answers(keys, type) == keys = ApplicableChecks(type)

\* mutant: closure is full marks only when no next step is named.
MarkForClosedOnly(c, yes, cfg) ==
    IF c = "next_step_date" /\ ChecksByComponent[c] \cap yes = {"ns_closure"}
    THEN cfg.weights[c]
    ELSE MarksByTrueCount(cfg.weights[c], c,
                          Cardinality((ChecksByComponent[c] \ {"ns_closure"}) \cap yes))

\* ns_closure is full marks whatever the other two say.
MarkFor(c, yes, cfg) ==
    IF c = "next_step_date" /\ "ns_closure" \in yes
    THEN cfg.weights[c]
    ELSE MarksByTrueCount(cfg.weights[c], c, Cardinality(ChecksByComponent[c] \cap yes))

Denominator(type, cfg) == SumOver(cfg.weights, ApplicableComponents(type))

\* mutant: the rounding term doubled.
RescaleUp(raw, denominator) == (raw * 100 + denominator) \div denominator

\* Round half up, in integers.
Rescale(raw, denominator) == (raw * 100 + denominator \div 2) \div denominator

\* The first band whose inclusive upper bound is not passed, else the top one.
BandFor(total, cfg) ==
    LET bounds == cfg.band_boundaries
        reached == {i \in DOMAIN bounds : total <= bounds[i][2]} \cup {Len(bounds)}
    IN  bounds[CHOOSE i \in reached : \A j \in reached : i <= j][1]

ActionFor(total, cfg) ==
    IF total >= cfg.accept_threshold THEN "accept_silent"
    ELSE IF total >= cfg.flag_threshold THEN "accept_flag_prompt"
    ELSE "prompt_clarification"

\* The enforcement block of a scored note: strict records and does not block.
Verdict(action, cfg) ==
    IF cfg.enforcement_mode # "off" /\ action # "accept_silent" THEN "flag" ELSE "allow"

ComputeScore(type, yes, cfg) ==
    LET marks == [c \in ApplicableComponents(type) |-> MarkFor(c, yes, cfg)]
        denominator == Denominator(type, cfg)
        total == Rescale(SumOver(marks, DOMAIN marks), denominator)
    IN  IF denominator = 0
        THEN Raised
        ELSE [outcome |-> "scored", total |-> total, band |-> BandFor(total, cfg),
              denominator |-> denominator, marks |-> marks,
              action |-> ActionFor(total, cfg),
              verdict |-> Verdict(ActionFor(total, cfg), cfg)]

-----------------------------------------------------------------------------
(* The behaviour *)

Init == config = Unread /\ note = NoNote /\ judged = NotJudged

\* Startup: all or nothing, so a refused file stops the deployment.
Load(file) ==
    /\ config = Unread
    /\ config' = IF Accepts(file) THEN Over(file) ELSE Refused
    /\ UNCHANGED <<note, judged>>

\* The model answers keys about a note, every one of them no.
Reject(type, keys) ==
    /\ Serving
    /\ ~Answers(keys, type)
    /\ note' = NoNote
    /\ judged' = Rejected
    /\ UNCHANGED config

Score(type, keys, yes) ==
    /\ Serving
    /\ Answers(keys, type)
    /\ note' = [type |-> type, yes |-> yes]
    /\ judged' = ComputeScore(type, yes, config)
    /\ UNCHANGED config

\* The keys a reply may carry: what was asked, one short of it, one over it.
Replies(type) ==
    LET asked == ApplicableChecks(type)
    IN  {asked} \cup {asked \ {c} : c \in asked} \cup {asked \cup {c} : c \in CheckNames \ asked}

FirstAnswer == \E type \in NoteTypes : \E keys \in Replies(type) :
                  Reject(type, keys) \/ Score(type, keys, {})

\* The note is rewritten, and one more answer comes back yes.
Better(c) ==
    /\ judged.outcome = "scored"
    /\ c \in ApplicableChecks(note.type) \ note.yes
    /\ Score(note.type, ApplicableChecks(note.type), note.yes \cup {c})

Next == \/ \E file \in Files : Load(file)
        \/ FirstAnswer
        \/ \E c \in CheckNames : Better(c)

Spec == Init /\ [][Next]_vars

-----------------------------------------------------------------------------
(* What must hold *)

Scored == judged.outcome = "scored"
Rank(name, order) == CHOOSE i \in DOMAIN order : order[i] = name

\* A total is a percentage, every mark lies within its weight, and the four
\* readings of a score are values the schemas accept.
TypeOK ==
    /\ note.type \in NoteTypes \cup {"none"} /\ note.yes \subseteq CheckNames
    /\ judged.outcome \in {"none", "rejected", "raised", "scored"}
    /\ Scored =>
         /\ judged.total \in 0..100 /\ judged.denominator \in 1..100
         /\ \A c \in DOMAIN judged.marks : judged.marks[c] \in 0..config.weights[c]
         /\ judged.band \in {Bands[i] : i \in DOMAIN Bands}
         /\ judged.action \in {Actions[i] : i \in DOMAIN Actions}
         /\ judged.verdict \in {"allow", "flag"}

\* A component is complete when each ordinary check is yes, or the lead closed.
Complete(c) ==
    \/ ChecksByComponent[c] \ {"ns_closure"} \subseteq note.yes
    \/ c = "next_step_date" /\ "ns_closure" \in note.yes

\* Suppression is not a zero: a note that does everything its type allows scores
\* 100 and is accepted without a word, under every rubric startup accepts; and
\* rounding alone never lifts a note that dropped a mark to 100.
CompleteScoresFull ==
    Scored =>
      /\ (\A c \in DOMAIN judged.marks : Complete(c)) =>
            judged.total = 100 /\ judged.action = "accept_silent" /\ judged.verdict = "allow"
      /\ judged.total = 100 =>
            \A c \in DOMAIN judged.marks : judged.marks[c] = config.weights[c]

\* Whatever the tenant's bands and thresholds, one more yes never lowers the
\* total, the band or the advice, and never turns an allowed note into a flagged one.
BetterNeverScoresLower ==
    [][ (Scored /\ judged'.outcome = "scored" /\ note'.type = note.type
            /\ note.yes \subseteq note'.yes) =>
          /\ judged.total <= judged'.total
          /\ Rank(judged.band, Bands) <= Rank(judged'.band, Bands)
          /\ Rank(judged.action, Actions) <= Rank(judged'.action, Actions)
          /\ (judged.verdict = "allow" => judged'.verdict = "allow") ]_vars

\* config.py: a rubric that leaves a judgement with a denominator of 0 is refused
\* at startup instead of raising on every note.
AcceptedRubricScores == judged # Raised

=============================================================================

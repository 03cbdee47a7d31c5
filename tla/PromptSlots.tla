----------------------------- MODULE PromptSlots -----------------------------
(***************************************************************************)
(* The two politeness guards on clarification prompts: the note's attempt  *)
(* cap and the subject's hourly and daily rate limits (state.py), as the   *)
(* pipeline takes them (_fixed_question, steps 5, 8 and 10 of _judge) and  *)
(* decide.py reads them.                                                   *)
(*                                                                         *)
(* A request is one judgement: a note below the length floor ("thin") or a *)
(* scored one whose model passes end in one of three outcomes.  Requests   *)
(* of one note may come from several subjects and run at the same time.    *)
(***************************************************************************)
EXTENDS Integers, FiniteSets

CONSTANTS Requests, Notes, Subjects, NoteOf, SubjectOf,
          Cap, AttemptTtl,      \* clarification_cap, attempt_ttl_seconds
          RateHour, HourTtl,    \* rate_limit_per_hour, rate_limit_window_seconds
          RateDay, DayTtl,      \* rate_limit_per_day, RATE_LIMIT_DAY_WINDOW_SECONDS
          Leftover,             \* values an old attempt counter with no TTL may have
          Nobody

ASSUME OwnersAssumption ==
    /\ NoteOf \in [Requests -> Notes] /\ SubjectOf \in [Requests -> Subjects]
    /\ Nobody \notin Requests
ASSUME LimitsAssumption ==
    /\ Cap \in Nat /\ RateHour \in Nat /\ RateDay \in Nat
    /\ AttemptTtl \in Nat \ {0} /\ HourTtl \in Nat \ {0} /\ DayTtl \in Nat \ {0}
    /\ Leftover \subseteq 1..Cap

VARIABLES attempt,   \* attempt:{tenant}:{note}
          hour,      \* ratelimit:{tenant}:{subject}
          day,       \* ratelimit_day:{tenant}:{subject}
          fp,        \* attempt_fp:{tenant}:{note}: whose text, and its TTL
          wire,      \* scripts and SETs cut off from their caller, not yet run
          pc, route, \* where each request is, and what kind it is
          read,      \* the attempt count as read at step 5
          result,    \* the Decision, or the fixed question's outcome
          took,      \* history: its script answered "allowed"
          bypassed,  \* history: its take failed open
          takers     \* history: who took an attempt since the counter was created

vars == <<attempt, hour, day, fp, wire, pc, route, read, result, took, bypassed, takers>>

NoExpiry == -1
Gone == [n |-> 0, ttl |-> 0]
NoReference == [by |-> Nobody, ttl |-> 0]

\* Not known yet; a note too thin to score; and what the passes concluded:
\* accept_silent, a flagged note with nothing to ask, one with a question.
Kinds == {"unknown", "thin", "silent", "nothing", "question"}
Route == [kind : Kinds, resub : BOOLEAN]

\* prompt_withheld; "sent" when the prompt goes out, "none" for accept_silent.
Reasons == {"sent", "none", "resubmission", "attempt_cap", "rate_limited",
            "nothing_to_ask"}
Undecided == [why |-> "none", number |-> 0]
PC == {"arrive", "read", "passes", "trip", "reference", "done", "dead"}

TypeOK ==
    /\ attempt \in [Notes -> [n : Nat, ttl : -1..AttemptTtl]]
    /\ hour \in [Subjects -> [n : Nat, ttl : 0..HourTtl]]
    /\ day \in [Subjects -> [n : Nat, ttl : 0..DayTtl]]
    /\ fp \in [Notes -> [by : Requests \cup {Nobody}, ttl : 0..AttemptTtl]]
    /\ wire \subseteq {"take", "write"} \X Requests
    /\ pc \in [Requests -> PC]
    /\ route \in [Requests -> Route]
    /\ read \in [Requests -> Nat]
    /\ result \in [Requests -> [why : Reasons, number : Nat]]
    /\ took \in [Requests -> BOOLEAN]
    /\ bypassed \in [Requests -> BOOLEAN]
    /\ takers \in [Notes -> SUBSET Requests]

Init ==
    /\ attempt \in [Notes -> {Gone} \cup {[n |-> v, ttl |-> NoExpiry] : v \in Leftover}]
    /\ hour = [s \in Subjects |-> Gone]
    /\ day = [s \in Subjects |-> Gone]
    /\ fp = [n \in Notes |-> NoReference]
    /\ wire = {}
    /\ pc = [r \in Requests |-> "arrive"]
    /\ route = [r \in Requests |-> [kind |-> "unknown", resub |-> FALSE]]
    /\ read = [r \in Requests |-> 0]
    /\ result = [r \in Requests |-> Undecided]
    /\ took = [r \in Requests |-> FALSE]
    /\ bypassed = [r \in Requests |-> FALSE]
    /\ takers = [n \in Notes |-> {}]

-----------------------------------------------------------------------------
(* decide.py: pure operators of the counts BEFORE this request. *)

\* withheld_reason: the first failing condition, in the documented order.
WithheldReason(hasPrompt, resub, attempts, allowed, count) ==
    CASE resub -> "resubmission"
      [] ~resub /\ attempts >= Cap -> "attempt_cap"
      [] ~resub /\ attempts < Cap /\ (~allowed \/ count >= RateHour) -> "rate_limited"
      [] OTHER -> IF hasPrompt THEN "sent" ELSE "nothing_to_ask"

\* mutant: the attempt number is the count before this request.
DecideNumberBefore(rt, attempts, allowed, count) ==
    LET why == IF rt.kind = "silent" THEN "none"
               ELSE WithheldReason(rt.kind # "nothing", rt.resub, attempts, allowed, count)
    IN  [why |-> why, number |-> attempts]
\* decide: accept_silent never carries a reason; `attempt` is the count after.
Decide(rt, attempts, allowed, count) ==
    LET why == IF rt.kind = "silent" THEN "none"
               ELSE WithheldReason(rt.kind # "nothing", rt.resub, attempts, allowed, count)
    IN  [why |-> why, number |-> IF why = "sent" THEN attempts + 1 ELSE attempts]

-----------------------------------------------------------------------------
(* The server: one script checks the three counters and takes all or none. *)

\* mutant: every take restarts the window.
IncrRefresh(c, window) == [n |-> c.n + 1, ttl |-> window]
\* mutant: INCR without EXPIRE.
IncrNoExpire(c, window) == [n |-> c.n + 1, ttl |-> IF c.n = 0 THEN NoExpiry ELSE c.ttl]
\* INCR, and EXPIRE only on a key that is new or has no TTL.
Incr(c, window) ==
    [n |-> c.n + 1, ttl |-> IF c.n = 0 \/ c.ttl = NoExpiry THEN window ELSE c.ttl]

\* mutant: the step 5 read is trusted and the script only guards the rate.
SlotsReplyRateOnly(a, h, d) ==
    CASE h.n >= RateHour -> <<1, a.n, h.n>>
      [] h.n < RateHour /\ d.n >= RateDay -> <<1, a.n, h.n>>
      [] OTHER -> <<2, a.n + 1, h.n>>
\* The script's reply: which guard refused, or neither; the attempt count
\* (after the INCR on a take); the hourly count.
SlotsReply(a, h, d) ==
    CASE a.n >= Cap -> <<0, a.n, 0>>
      [] a.n < Cap /\ h.n >= RateHour -> <<1, a.n, h.n>>
      [] a.n < Cap /\ h.n < RateHour /\ d.n >= RateDay -> <<1, a.n, h.n>>
      [] OTHER -> <<2, a.n + 1, h.n>>

ReplyFor(r) == SlotsReply(attempt[NoteOf[r]], hour[SubjectOf[r]], day[SubjectOf[r]])

TakeScript(r) ==
    LET n == NoteOf[r] s == SubjectOf[r] IN
    \/ /\ ReplyFor(r)[1] = 2
       /\ attempt' = [attempt EXCEPT ![n] = Incr(@, AttemptTtl)]
       /\ hour' = [hour EXCEPT ![s] = Incr(@, HourTtl)]
       /\ day' = [day EXCEPT ![s] = Incr(@, DayTtl)]
       /\ took' = [took EXCEPT ![r] = TRUE]
       /\ takers' = [takers EXCEPT ![n] = @ \cup {r}]
    \/ /\ ReplyFor(r)[1] # 2
       /\ UNCHANGED <<attempt, hour, day, took, takers>>

\* mutant: the count after the take is handed to decide as it is.
PromptSlotsAnswerAfter(reply) ==
    [attempts |-> reply[2], allowed |-> reply[1] # 1, count |-> reply[3]]
\* _prompt_slots_answer: the reply as decide reads it, counts BEFORE.
PromptSlotsAnswer(reply) ==
    [attempts |-> IF reply[1] = 2 THEN reply[2] - 1 ELSE reply[2],
     allowed |-> reply[1] # 1, count |-> reply[3]]

\* SET attempt_fp NX EX attempt_ttl
Write(r) ==
    IF fp[NoteOf[r]].by = Nobody
      THEN fp' = [fp EXCEPT ![NoteOf[r]] = [by |-> r, ttl |-> AttemptTtl]]
      ELSE UNCHANGED fp

-----------------------------------------------------------------------------
Goto(r, p) == pc' = [pc EXCEPT ![r] = p]
\* The step 5 count is a local that nothing reads after the decision.
Forget(r) == read' = [read EXCEPT ![r] = 0]
Conclude(r, p, res) ==
    Goto(r, p) /\ result' = [result EXCEPT ![r] = res] /\ Forget(r)
Counters == <<attempt, hour, day, took, takers>>

\* A judgement begins.  A thin note's resubmission withholds outright and
\* touches no counter.
Arrive(r) ==
    /\ pc[r] = "arrive"
    /\ \E k \in {"unknown", "thin"}, b \in BOOLEAN :
          /\ route' = [route EXCEPT ![r] = [kind |-> k, resub |-> b]]
          /\ IF k = "thin" /\ b
               THEN Conclude(r, "done", [why |-> "resubmission", number |-> 0])
               ELSE Goto(r, "read") /\ UNCHANGED <<result, read>>
    /\ UNCHANGED <<Counters, fp, wire, bypassed>>

\* read_attempts: provisional, and 0 when the store does not answer.
ReadAttempts(r) ==
    /\ pc[r] = "read"
    /\ \E v \in {attempt[NoteOf[r]].n, 0} : read' = [read EXCEPT ![r] = v]
    /\ Goto(r, IF route[r].kind = "thin" THEN "trip" ELSE "passes")
    /\ UNCHANGED <<Counters, fp, wire, route, result, bypassed>>

\* The three passes answer; the provisional decide() picks the trip: none,
\* when no count could change the answer.
Passes(r) ==
    /\ pc[r] = "passes"
    /\ \E k \in {"silent", "nothing", "question"} :
          LET rt == [kind |-> k, resub |-> route[r].resub]
              provisional == Decide(rt, read[r], TRUE, 0) IN
          /\ route' = [route EXCEPT ![r] = rt]
          /\ IF provisional.why \in {"sent", "nothing_to_ask"}
               THEN Goto(r, "trip") /\ UNCHANGED <<result, read>>
               ELSE Conclude(r, "reference", provisional)
    /\ UNCHANGED <<Counters, fp, wire, bypassed>>

Asking(r) == pc[r] = "trip" /\ route[r].kind # "nothing"
After(r) == IF route[r].kind = "thin" THEN "done" ELSE "reference"

\* take_prompt_slots answered, and decide read the answer.
TakeAnswered(r) ==
    LET a == PromptSlotsAnswer(ReplyFor(r)) IN
    /\ Asking(r)
    /\ TakeScript(r)
    /\ Conclude(r, After(r), Decide(route[r], a.attempts, a.allowed, a.count))
    /\ UNCHANGED <<fp, wire, route, bypassed>>

\* It failed open: an open window and the count read at step 5.  The script
\* may still run.
TakeBypassed(r) ==
    /\ Asking(r)
    /\ Conclude(r, After(r), Decide(route[r], read[r], TRUE, 0))
    /\ bypassed' = [bypassed EXCEPT ![r] = TRUE]
    /\ wire' = wire \/ wire' = wire \cup {<<"take", r>>}
    /\ UNCHANGED <<Counters, fp, route>>

\* Nothing to ask: read_rate_limit only, of the hourly window.
RateRead(r) ==
    /\ pc[r] = "trip" /\ route[r].kind = "nothing"
    /\ \/ /\ Conclude(r, "reference",
                      Decide(route[r], read[r], TRUE, hour[SubjectOf[r]].n))
          /\ UNCHANGED bypassed
       \/ /\ Conclude(r, "reference", Decide(route[r], read[r], TRUE, 0))
          /\ bypassed' = [bypassed EXCEPT ![r] = TRUE]
    /\ UNCHANGED <<Counters, fp, wire, route>>

\* Steps 9 and 10: the reference of a prompt sent, written, lost or cut off.
Reference(r) ==
    /\ pc[r] = "reference"
    /\ \/ result[r].why = "sent" /\ Write(r) /\ UNCHANGED wire
       \/ result[r].why = "sent" /\ wire' = wire \cup {<<"write", r>>} /\ UNCHANGED fp
       \/ UNCHANGED <<fp, wire>>
    /\ Goto(r, "done")
    /\ UNCHANGED <<Counters, route, read, result, bypassed>>

\* A pass fails, the deadline passes, the client goes or the worker is killed.
\* No counter is ever handed back; a command being awaited may still run.
Abandon(r) ==
    /\ pc[r] \in {"read", "passes", "trip", "reference"}
    /\ Goto(r, "dead")
    /\ Forget(r)
    /\ \/ UNCHANGED wire
       \/ Asking(r) /\ wire' = wire \cup {<<"take", r>>}
       \/ /\ pc[r] = "reference" /\ result[r].why = "sent"
          /\ wire' = wire \cup {<<"write", r>>}
    /\ UNCHANGED <<Counters, fp, route, result, bypassed>>

\* A command whose caller has gone on reaches the server, or never does.
Late ==
    \E c \in wire :
        /\ wire' = wire \ {c}
        /\ \/ c[1] = "take" /\ TakeScript(c[2]) /\ UNCHANGED fp
           \/ c[1] = "write" /\ Write(c[2]) /\ UNCHANGED Counters
           \/ UNCHANGED <<Counters, fp>>
        /\ UNCHANGED <<pc, route, read, result, bypassed>>

Aged(c) == IF c.ttl = 1 THEN Gone
           ELSE [c EXCEPT !.ttl = IF @ > 1 THEN @ - 1 ELSE @]

Tick ==
    /\ attempt' = [n \in Notes |-> Aged(attempt[n])]
    /\ takers' = [n \in Notes |-> IF attempt[n].ttl = 1 THEN {} ELSE takers[n]]
    /\ hour' = [s \in Subjects |-> Aged(hour[s])]
    /\ day' = [s \in Subjects |-> Aged(day[s])]
    /\ fp' = [n \in Notes |-> IF fp[n].ttl <= 1 THEN NoReference
                              ELSE [fp[n] EXCEPT !.ttl = @ - 1]]
    /\ UNCHANGED <<wire, pc, route, read, result, took, bypassed>>

Step(r) ==
    \/ Arrive(r) \/ ReadAttempts(r) \/ Passes(r) \/ TakeAnswered(r) \/ TakeBypassed(r)
    \/ RateRead(r) \/ Reference(r) \/ Abandon(r)

Next == (\E r \in Requests : Step(r)) \/ Late \/ Tick

Spec == Init /\ [][Next]_vars

-----------------------------------------------------------------------------
(* Properties *)

\* However many judgements of a note or of a subject run at once, and whatever
\* scripts land late, no counter passes its limit.
CapsHold ==
    /\ \A n \in Notes : attempt[n].n <= Cap
    /\ \A s \in Subjects : hour[s].n <= RateHour /\ day[s].n <= RateDay

\* The script, its decoder and decide() agree: a judgement that was answered by
\* the store took its slots exactly when it asked the question.  A resubmission,
\* a silent accept and a question-less note take none.
SlotTakenIffSent ==
    \A r \in Requests :
        pc[r] = "done" /\ ~bypassed[r] => (took[r] <=> result[r].why = "sent")

\* The attempt numbers the CRM shows for one note are 1 to Cap, each once in
\* the life of the counter, though the judgements overlap.
AttemptNumbersDistinct ==
    \A n \in Notes : \A r, s \in takers[n] :
        LET told(q) == pc[q] \in {"reference", "done"} /\ ~bypassed[q]
                       /\ route[q].kind = "question" IN
        told(r) /\ told(s) =>
            /\ result[r].number \in 1..Cap
            /\ result[r].number = result[s].number => r = s

\* A window that is running only runs down: asking again never extends it, so
\* a capped note or subject is always free again when its window ends.
WindowsRunDown ==
    [][/\ \A n \in Notes : attempt[n].ttl > 0 => attempt'[n].ttl <= attempt[n].ttl
       /\ \A s \in Subjects : /\ hour[s].ttl > 0 => hour'[s].ttl <= hour[s].ttl
                              /\ day[s].ttl > 0 => day'[s].ttl <= day[s].ttl]_vars

\* What ASSUMPTIONS.md says of the attempt key: "EX on create and whenever TTL
\* is -1" -- a script that ran on a counter leaves it with a window.
PinnedCounterRepaired ==
    [][\A r \in Requests :
         Asking(r) /\ pc'[r] = After(r) /\ ~bypassed'[r]
         => attempt'[NoteOf[r]].ttl # NoExpiry]_vars

\* What write_attempt_fingerprint says: "the reference lives exactly as long as
\* the counter it belongs to and dies with it".
ReferenceDiesWithCounter ==
    \A n \in Notes :
        fp[n].by \in {r \in Requests : ~bypassed[r]} => attempt[n].n > 0

\* What decide() says of `attempt`: it "matches the number of questions they
\* have actually been asked".
NumberIsQuestionsAsked ==
    \A r \in Requests :
        /\ pc[r] = "done" /\ r \in takers[NoteOf[r]] /\ ~bypassed[r]
        /\ route[r].kind = "question"
        => result[r].number <= Cardinality({s \in takers[NoteOf[r]] : pc[s] # "dead"})

\* What read_rate_limit says: "an exhausted window still reports rate_limited"
\* when there is nothing to ask -- either window, as for a prompt.
ExhaustedWindowReported ==
    [][\A r \in Requests :
         /\ pc[r] = "trip" /\ pc'[r] = "reference" /\ ~bypassed'[r]
         /\ result'[r].why = "nothing_to_ask"
         => hour[SubjectOf[r]].n < RateHour /\ day[SubjectOf[r]].n < RateDay]_vars
=============================================================================

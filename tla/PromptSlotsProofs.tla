-------------------------- MODULE PromptSlotsProofs --------------------------
(***************************************************************************)
(* Safety of the prompt guards for any number of judgements, notes and     *)
(* subjects, any caps and any windows.  Beside the caps themselves the     *)
(* argument needs that a judgement comes to the script only if it has      *)
(* something to ask, that it takes its slots there and nowhere else while  *)
(* the store answers, and that numbers told are numbers already counted.   *)
(***************************************************************************)
EXTENDS PromptSlots, TLAPS

\* A counter has a window exactly while it exists (or lost it long ago).
CountersHaveWindow ==
    /\ \A n \in Notes : attempt[n].n > 0 <=> attempt[n].ttl # 0
    /\ \A s \in Subjects : (hour[s].n > 0 <=> hour[s].ttl # 0) /\ (day[s].n > 0 <=> day[s].ttl # 0)

\* Only a judgement with something to say makes the trip to the store.
TripAsks ==
    \A r \in Requests :
        /\ pc[r] = "read" /\ route[r].kind = "thin" => ~route[r].resub
        /\ pc[r] = "trip" => ~route[r].resub /\ route[r].kind \in {"thin", "nothing", "question"}

\* A judgement the store never answered is the only one a script runs for late.
LateIsBypassed ==
    \A r \in Requests : <<"take", r>> \in wire => bypassed[r] \/ pc[r] = "dead"
BypassedIsPast ==
    \A r \in Requests : bypassed[r] => pc[r] \in {"reference", "done", "dead"}

\* Slots are taken on the way from the trip to the decision.
TookOnTrip ==
    \A r \in Requests :
        /\ pc[r] \in {"arrive", "read", "passes", "trip"} => ~took[r]
        /\ pc[r] \in {"reference", "done"} /\ ~bypassed[r] => (took[r] <=> result[r].why = "sent")
TakersTook == \A n \in Notes : \A r \in takers[n] : took[r] /\ NoteOf[r] = n

IsTold(r) == pc[r] \in {"reference", "done"} /\ ~bypassed[r] /\ route[r].kind = "question"
\* A number told is one the counter has passed, and nobody else's.
NumbersCounted ==
    \A n \in Notes : \A r, s \in takers[n] :
        /\ IsTold(r) => result[r].number \in 1..attempt[n].n
        /\ IsTold(r) /\ IsTold(s) /\ result[r].number = result[s].number => r = s

PInv == /\ TypeOK /\ CapsHold /\ CountersHaveWindow /\ TripAsks /\ LateIsBypassed
        /\ BypassedIsPast /\ TookOnTrip /\ TakersTook /\ NumbersCounted

-----------------------------------------------------------------------------
LEMMA Constants ==
    /\ Cap \in Nat /\ RateHour \in Nat /\ RateDay \in Nat
    /\ AttemptTtl \in Nat \ {0} /\ HourTtl \in Nat \ {0} /\ DayTtl \in Nat \ {0}
    /\ \A r \in Requests : NoteOf[r] \in Notes /\ SubjectOf[r] \in Subjects
BY OwnersAssumption, LimitsAssumption

LEMMA InitPInv == Init => PInv
<1> SUFFICES ASSUME Init PROVE PInv
  OBVIOUS
<1>1. \A n \in Notes : attempt[n] \in {Gone} \cup {[n |-> v, ttl |-> NoExpiry] : v \in Leftover}
  BY DEF Init
<1>2. \A n \in Notes : /\ attempt[n] \in [n : Nat, ttl : -1..AttemptTtl]
                       /\ attempt[n].n <= Cap /\ (attempt[n].n > 0 <=> attempt[n].ttl # 0)
  BY <1>1, Constants, LimitsAssumption DEF Gone, NoExpiry
<1>3. TypeOK
  BY <1>2, Constants DEF Init, TypeOK, Gone, NoReference, Route, Kinds, Undecided, Reasons, PC
<1>4. CapsHold /\ CountersHaveWindow
  BY <1>2, Constants DEF Init, CapsHold, CountersHaveWindow, Gone
<1>5. TripAsks /\ LateIsBypassed /\ BypassedIsPast /\ TookOnTrip /\ TakersTook /\ NumbersCounted
  BY DEF Init, TripAsks, LateIsBypassed, BypassedIsPast, TookOnTrip, TakersTook, NumbersCounted
<1> QED
  BY <1>3, <1>4, <1>5 DEF PInv

-----------------------------------------------------------------------------
(* The server *)

LEMMA IncrFacts ==
    ASSUME NEW w \in Nat \ {0}, NEW c, c.n \in Nat, c.ttl \in -1..w, c.n > 0 <=> c.ttl # 0
    PROVE  /\ Incr(c, w).n = c.n + 1 /\ Incr(c, w).ttl \in 1..w
           /\ c.ttl > 0 => Incr(c, w).ttl = c.ttl
           /\ Incr(c, w) = [n |-> c.n + 1, ttl |-> Incr(c, w).ttl]
BY DEF Incr, NoExpiry

LEMMA AgedFacts ==
    ASSUME NEW w \in Nat \ {0}, NEW lo \in {-1, 0}, NEW c \in [n : Nat, ttl : lo..w],
           c.n > 0 <=> c.ttl # 0
    PROVE  /\ Aged(c) \in [n : Nat, ttl : lo..w] /\ Aged(c).n <= c.n
           /\ Aged(c).n > 0 <=> Aged(c).ttl # 0
           /\ c.ttl > 0 => Aged(c).ttl <= c.ttl
           /\ c.ttl # 1 => Aged(c).n = c.n
<1>1. CASE c.ttl = 1
  BY <1>1 DEF Aged, Gone
<1>2. CASE c.ttl # 1
  <2>1. Aged(c) = [n |-> c.n, ttl |-> IF c.ttl > 1 THEN c.ttl - 1 ELSE c.ttl]
    BY <1>2 DEF Aged
  <2> QED
    BY <1>2, <2>1
<1> QED
  BY <1>1, <1>2

\* The script's three answers.
LEMMA Replies ==
    ASSUME TypeOK, NEW r \in Requests
    PROVE  LET a == attempt[NoteOf[r]].n  h == hour[SubjectOf[r]].n  d == day[SubjectOf[r]].n
           IN  \/ ReplyFor(r) = <<0, a, 0>> /\ a >= Cap
               \/ ReplyFor(r) = <<1, a, h>> /\ a < Cap /\ (h >= RateHour \/ d >= RateDay)
               \/ ReplyFor(r) = <<2, a + 1, h>> /\ a < Cap /\ h < RateHour /\ d < RateDay
<1>1. /\ attempt[NoteOf[r]].n \in Nat /\ hour[SubjectOf[r]].n \in Nat /\ day[SubjectOf[r]].n \in Nat
  BY Constants DEF TypeOK
<1>2. Cap \in Int /\ RateHour \in Int /\ RateDay \in Int
  BY Constants
<1> DEFINE a == attempt[NoteOf[r]]
           h == hour[SubjectOf[r]]
           d == day[SubjectOf[r]]
<1>3. a.n \in Int /\ h.n \in Int /\ d.n \in Int
  BY <1>1
<1>4. ReplyFor(r) = SlotsReply(a, h, d)
  BY DEF ReplyFor
<1> HIDE DEF a, h, d
<1>5. CASE a.n >= Cap
  <2>1. SlotsReply(a, h, d) = <<0, a.n, 0>>
    BY <1>2, <1>3, <1>5 DEF SlotsReply
  <2> QED
    BY <1>4, <1>5, <2>1 DEF a, h, d
<1>6. CASE a.n < Cap /\ (h.n >= RateHour \/ d.n >= RateDay)
  <2>1. SlotsReply(a, h, d) = <<1, a.n, h.n>>
    BY <1>2, <1>3, <1>6 DEF SlotsReply
  <2> QED
    BY <1>4, <1>6, <2>1 DEF a, h, d
<1>7. CASE a.n < Cap /\ h.n < RateHour /\ d.n < RateDay
  <2>1. SlotsReply(a, h, d) = <<2, a.n + 1, h.n>>
    BY <1>2, <1>3, <1>7 DEF SlotsReply
  <2> QED
    BY <1>4, <1>7, <2>1 DEF a, h, d
<1> QED
  BY <1>2, <1>3, <1>5, <1>6, <1>7

\* A script keeps the counters within their caps and their windows running down.
LEMMA ScriptCounters ==
    ASSUME TypeOK, CapsHold, CountersHaveWindow, NEW r \in Requests, TakeScript(r)
    PROVE  /\ attempt' \in [Notes -> [n : Nat, ttl : -1..AttemptTtl]]
           /\ hour' \in [Subjects -> [n : Nat, ttl : 0..HourTtl]]
           /\ day' \in [Subjects -> [n : Nat, ttl : 0..DayTtl]]
           /\ CapsHold' /\ CountersHaveWindow'
           /\ \A n \in Notes : attempt[n].ttl > 0 => attempt'[n].ttl <= attempt[n].ttl
           /\ \A s \in Subjects : /\ hour[s].ttl > 0 => hour'[s].ttl <= hour[s].ttl
                                  /\ day[s].ttl > 0 => day'[s].ttl <= day[s].ttl
           /\ \A n \in Notes : attempt'[n].n >= attempt[n].n
<1> DEFINE n == NoteOf[r]  s == SubjectOf[r]
<1>k. n \in Notes /\ s \in Subjects
  BY Constants
<1>t. /\ \A m \in Notes : attempt[m] \in [n : Nat, ttl : -1..AttemptTtl]
      /\ \A x \in Subjects : hour[x] \in [n : Nat, ttl : 0..HourTtl] /\ day[x] \in [n : Nat, ttl : 0..DayTtl]
  BY DEF TypeOK
<1>u. /\ \A m \in Notes : attempt[m].n \in Nat /\ attempt[m].ttl \in Int
      /\ \A x \in Subjects : /\ hour[x].n \in Nat /\ hour[x].ttl \in Int
                             /\ day[x].n \in Nat /\ day[x].ttl \in Int
  BY <1>t, Constants
<1>1. CASE ReplyFor(r)[1] # 2
  <2>1. UNCHANGED <<attempt, hour, day>>
    BY <1>1 DEF TakeScript
  <2> QED
    BY <2>1, <1>u DEF TypeOK, CapsHold, CountersHaveWindow
<1>2. CASE ReplyFor(r)[1] = 2
  <2>1. /\ attempt' = [attempt EXCEPT ![n] = Incr(attempt[n], AttemptTtl)]
        /\ hour' = [hour EXCEPT ![s] = Incr(hour[s], HourTtl)]
        /\ day' = [day EXCEPT ![s] = Incr(day[s], DayTtl)]
    BY <1>2 DEF TakeScript
  <2>2. attempt[n].n < Cap /\ hour[s].n < RateHour /\ day[s].n < RateDay
    BY <1>2, Replies
  <2>3. /\ Incr(attempt[n], AttemptTtl).n = attempt[n].n + 1
        /\ Incr(attempt[n], AttemptTtl).ttl \in 1..AttemptTtl
        /\ attempt[n].ttl > 0 => Incr(attempt[n], AttemptTtl).ttl = attempt[n].ttl
        /\ Incr(attempt[n], AttemptTtl) \in [n : Nat, ttl : -1..AttemptTtl]
    <3>1. attempt[n].n \in Nat /\ attempt[n].ttl \in -1..AttemptTtl /\ (attempt[n].n > 0 <=> attempt[n].ttl # 0)
      BY <1>k, <1>t DEF CountersHaveWindow
    <3> QED
      BY <3>1, Constants, IncrFacts
  <2>4. /\ Incr(hour[s], HourTtl).n = hour[s].n + 1 /\ Incr(hour[s], HourTtl).ttl \in 1..HourTtl
        /\ hour[s].ttl > 0 => Incr(hour[s], HourTtl).ttl = hour[s].ttl
        /\ Incr(hour[s], HourTtl) \in [n : Nat, ttl : 0..HourTtl]
    <3>1. hour[s].n \in Nat /\ hour[s].ttl \in -1..HourTtl /\ (hour[s].n > 0 <=> hour[s].ttl # 0)
      BY <1>k, <1>t, Constants DEF CountersHaveWindow
    <3> QED
      BY <3>1, Constants, IncrFacts
  <2>5. /\ Incr(day[s], DayTtl).n = day[s].n + 1 /\ Incr(day[s], DayTtl).ttl \in 1..DayTtl
        /\ day[s].ttl > 0 => Incr(day[s], DayTtl).ttl = day[s].ttl
        /\ Incr(day[s], DayTtl) \in [n : Nat, ttl : 0..DayTtl]
    <3>1. day[s].n \in Nat /\ day[s].ttl \in -1..DayTtl /\ (day[s].n > 0 <=> day[s].ttl # 0)
      BY <1>k, <1>t, Constants DEF CountersHaveWindow
    <3> QED
      BY <3>1, Constants, IncrFacts
  <2>6. /\ attempt' \in [Notes -> [n : Nat, ttl : -1..AttemptTtl]]
        /\ \A m \in Notes : attempt'[m] = IF m = n THEN Incr(attempt[n], AttemptTtl) ELSE attempt[m]
    BY <2>1, <2>3, <1>k DEF TypeOK
  <2>7. /\ hour' \in [Subjects -> [n : Nat, ttl : 0..HourTtl]]
        /\ \A x \in Subjects : hour'[x] = IF x = s THEN Incr(hour[s], HourTtl) ELSE hour[x]
    BY <2>1, <2>4, <1>k DEF TypeOK
  <2>8. /\ day' \in [Subjects -> [n : Nat, ttl : 0..DayTtl]]
        /\ \A x \in Subjects : day'[x] = IF x = s THEN Incr(day[s], DayTtl) ELSE day[x]
    BY <2>1, <2>5, <1>k DEF TypeOK
  <2>9. CapsHold' /\ CountersHaveWindow'
    <3>1. ASSUME NEW m \in Notes
          PROVE  attempt'[m].n <= Cap /\ (attempt'[m].n > 0 <=> attempt'[m].ttl # 0)
      BY <2>2, <2>3, <2>6, <1>u, <1>k, Constants DEF CapsHold, CountersHaveWindow
    <3>2. ASSUME NEW x \in Subjects
          PROVE  hour'[x].n <= RateHour /\ (hour'[x].n > 0 <=> hour'[x].ttl # 0)
      BY <2>2, <2>4, <2>7, <1>u, <1>k, Constants DEF CapsHold, CountersHaveWindow
    <3>3. ASSUME NEW x \in Subjects
          PROVE  day'[x].n <= RateDay /\ (day'[x].n > 0 <=> day'[x].ttl # 0)
      BY <2>2, <2>5, <2>8, <1>u, <1>k, Constants DEF CapsHold, CountersHaveWindow
    <3> QED
      BY <3>1, <3>2, <3>3 DEF CapsHold, CountersHaveWindow
  <2>10. /\ \A m \in Notes : /\ attempt[m].ttl > 0 => attempt'[m].ttl <= attempt[m].ttl
                             /\ attempt'[m].n >= attempt[m].n
         /\ \A x \in Subjects : /\ hour[x].ttl > 0 => hour'[x].ttl <= hour[x].ttl
                                /\ day[x].ttl > 0 => day'[x].ttl <= day[x].ttl
    BY <2>3, <2>4, <2>5, <2>6, <2>7, <2>8, <1>u, <1>k, Constants
  <2> QED
    BY <2>6, <2>7, <2>8, <2>9, <2>10
<1> QED
  BY <1>1, <1>2

\* Time takes counters away or shortens their windows.
LEMMA TickCounters ==
    ASSUME TypeOK, CapsHold, CountersHaveWindow, Tick
    PROVE  /\ attempt' \in [Notes -> [n : Nat, ttl : -1..AttemptTtl]]
           /\ hour' \in [Subjects -> [n : Nat, ttl : 0..HourTtl]]
           /\ day' \in [Subjects -> [n : Nat, ttl : 0..DayTtl]]
           /\ CapsHold' /\ CountersHaveWindow'
           /\ \A n \in Notes : attempt[n].ttl > 0 => attempt'[n].ttl <= attempt[n].ttl
           /\ \A s \in Subjects : /\ hour[s].ttl > 0 => hour'[s].ttl <= hour[s].ttl
                                  /\ day[s].ttl > 0 => day'[s].ttl <= day[s].ttl
           /\ \A n \in Notes : attempt[n].ttl # 1 => attempt'[n].n = attempt[n].n
<1>1. ASSUME NEW n \in Notes
      PROVE  /\ Aged(attempt[n]) \in [n : Nat, ttl : -1..AttemptTtl]
             /\ Aged(attempt[n]).n <= attempt[n].n /\ attempt[n].n \in Nat
             /\ Aged(attempt[n]).n > 0 <=> Aged(attempt[n]).ttl # 0
             /\ attempt[n].ttl > 0 => Aged(attempt[n]).ttl <= attempt[n].ttl
             /\ attempt[n].ttl # 1 => Aged(attempt[n]).n = attempt[n].n
  <2>1. attempt[n] \in [n : Nat, ttl : -1..AttemptTtl] /\ (attempt[n].n > 0 <=> attempt[n].ttl # 0)
    BY DEF TypeOK, CountersHaveWindow
  <2> QED
    BY <2>1, AgedFacts, Constants
<1>2. ASSUME NEW s \in Subjects
      PROVE  /\ Aged(hour[s]) \in [n : Nat, ttl : 0..HourTtl]
             /\ Aged(hour[s]).n <= hour[s].n /\ hour[s].n \in Nat
             /\ Aged(hour[s]).n > 0 <=> Aged(hour[s]).ttl # 0
             /\ hour[s].ttl > 0 => Aged(hour[s]).ttl <= hour[s].ttl
  <2>1. hour[s] \in [n : Nat, ttl : 0..HourTtl] /\ (hour[s].n > 0 <=> hour[s].ttl # 0)
    BY DEF TypeOK, CountersHaveWindow
  <2> QED
    BY <2>1, AgedFacts, Constants
<1>3. ASSUME NEW s \in Subjects
      PROVE  /\ Aged(day[s]) \in [n : Nat, ttl : 0..DayTtl]
             /\ Aged(day[s]).n <= day[s].n /\ day[s].n \in Nat
             /\ Aged(day[s]).n > 0 <=> Aged(day[s]).ttl # 0
             /\ day[s].ttl > 0 => Aged(day[s]).ttl <= day[s].ttl
  <2>1. day[s] \in [n : Nat, ttl : 0..DayTtl] /\ (day[s].n > 0 <=> day[s].ttl # 0)
    BY DEF TypeOK, CountersHaveWindow
  <2> QED
    BY <2>1, AgedFacts, Constants
<1>4. /\ attempt' = [n \in Notes |-> Aged(attempt[n])]
      /\ hour' = [s \in Subjects |-> Aged(hour[s])] /\ day' = [s \in Subjects |-> Aged(day[s])]
  BY DEF Tick
<1>5. /\ attempt' \in [Notes -> [n : Nat, ttl : -1..AttemptTtl]]
      /\ hour' \in [Subjects -> [n : Nat, ttl : 0..HourTtl]]
      /\ day' \in [Subjects -> [n : Nat, ttl : 0..DayTtl]]
  BY <1>1, <1>2, <1>3, <1>4
<1>6. /\ \A n \in Notes : attempt'[n] = Aged(attempt[n]) /\ attempt'[n].n \in Nat
      /\ \A s \in Subjects : /\ hour'[s] = Aged(hour[s]) /\ day'[s] = Aged(day[s])
                             /\ hour'[s].n \in Nat /\ day'[s].n \in Nat
  BY <1>1, <1>2, <1>3, <1>4
<1>7. CapsHold'
  BY <1>1, <1>2, <1>3, <1>6, Constants DEF CapsHold
<1>8. CountersHaveWindow'
  BY <1>1, <1>2, <1>3, <1>6 DEF CountersHaveWindow
<1> QED
  BY <1>1, <1>2, <1>3, <1>5, <1>6, <1>7, <1>8

-----------------------------------------------------------------------------
(* The steps *)

\* What decide answers: a reason and a count, "sent" only for a judgement with
\* a prompt, an attempt left and an open window, and then with the next number.
LEMMA Decides ==
    ASSUME NEW rt \in Route, NEW a \in Nat, NEW open \in BOOLEAN, NEW c \in Nat
    PROVE  LET d == Decide(rt, a, open, c) IN
           /\ d \in [why : Reasons, number : Nat]
           /\ d.why = "sent" <=> /\ rt.kind \notin {"silent", "nothing"} /\ ~rt.resub
                                 /\ a < Cap /\ open /\ c < RateHour
           /\ d.why = "nothing_to_ask" => rt.kind = "nothing" /\ ~rt.resub
           /\ d.number = IF d.why = "sent" THEN a + 1 ELSE a
<1>1. /\ rt.resub \in BOOLEAN /\ (a >= Cap <=> ~(a < Cap)) /\ (c >= RateHour <=> ~(c < RateHour))
  BY Constants DEF Route
<1> DEFINE w == WithheldReason(rt.kind # "nothing", rt.resub, a, open, c)
<1>2. /\ w \in Reasons
      /\ w = "sent" <=> rt.kind # "nothing" /\ ~rt.resub /\ a < Cap /\ open /\ c < RateHour
      /\ w = "nothing_to_ask" => rt.kind = "nothing" /\ ~rt.resub
      /\ w # "none"
  <2>1. CASE rt.resub
    BY <2>1, <1>1 DEF WithheldReason, Reasons
  <2>2. CASE ~rt.resub /\ a >= Cap
    BY <2>2, <1>1 DEF WithheldReason, Reasons
  <2>3. CASE ~rt.resub /\ a < Cap /\ (~open \/ c >= RateHour)
    BY <2>3, <1>1 DEF WithheldReason, Reasons
  <2>4. CASE ~rt.resub /\ a < Cap /\ open /\ c < RateHour
    BY <2>4, <1>1 DEF WithheldReason, Reasons
  <2> QED
    BY <2>1, <2>2, <2>3, <2>4, <1>1
<1>3. CASE rt.kind = "silent"
  BY <1>3 DEF Decide, Reasons
<1>4. CASE rt.kind # "silent"
  BY <1>2, <1>4 DEF Decide, Reasons
<1> QED
  BY <1>3, <1>4

\* A prompt with an attempt left and an open window goes out, with the next number.
LEMMA Sends ==
    ASSUME NEW rt \in Route, rt.kind \notin {"silent", "nothing"}, ~rt.resub,
           NEW a \in Nat, a < Cap, NEW c \in Nat, c < RateHour
    PROVE  Decide(rt, a, TRUE, c).why = "sent" /\ Decide(rt, a, TRUE, c).number = a + 1
<1>1. ~(a >= Cap) /\ ~(c >= RateHour)
  BY Constants
<1>2. WithheldReason(rt.kind # "nothing", rt.resub, a, TRUE, c) = "sent"
  BY <1>1 DEF WithheldReason
<1> QED
  BY <1>2 DEF Decide

\* Nothing counted and no number told that was not told before.
LEMMA ToldSame ==
    ASSUME NumbersCounted, UNCHANGED <<attempt, takers>>,
           \A n \in Notes : \A q \in takers[n] :
              IsTold(q)' => IsTold(q) /\ result'[q].number = result[q].number
    PROVE  NumbersCounted'
<1> SUFFICES ASSUME NEW n \in Notes, NEW q \in takers'[n], NEW s \in takers'[n]
             PROVE  /\ IsTold(q)' => result'[q].number \in 1..attempt'[n].n
                    /\ IsTold(q)' /\ IsTold(s)' /\ result'[q].number = result'[s].number => q = s
  BY DEF NumbersCounted
<1>1. q \in takers[n] /\ s \in takers[n] /\ attempt' = attempt
  OBVIOUS
<1>2. /\ IsTold(q)' => IsTold(q) /\ result'[q].number = result[q].number
      /\ IsTold(s)' => IsTold(s) /\ result'[s].number = result[s].number
  BY <1>1
<1>3. /\ IsTold(q) => result[q].number \in 1..attempt[n].n
      /\ IsTold(q) /\ IsTold(s) /\ result[q].number = result[s].number => q = s
  BY <1>1 DEF NumbersCounted
<1> QED
  BY <1>1, <1>2, <1>3

\* A judgement still on its way to the decision is not yet a taker.
LEMMA NotYetATaker ==
    ASSUME PInv, NEW r \in Requests, pc[r] \in {"arrive", "read", "passes", "trip"}
    PROVE  ~took[r] /\ ~bypassed[r] /\ \A n \in Notes : r \notin takers[n]
BY DEF PInv, TookOnTrip, TakersTook, BypassedIsPast

\* A judgement concludes: where it is and what it says.
LEMMA Concludes ==
    ASSUME TypeOK, NEW r \in Requests, NEW p \in PC, NEW res \in [why : Reasons, number : Nat],
           Conclude(r, p, res)
    PROVE  /\ pc' \in [Requests -> PC] /\ read' \in [Requests -> Nat]
           /\ result' \in [Requests -> [why : Reasons, number : Nat]]
           /\ pc'[r] = p /\ result'[r] = res
           /\ \A q \in Requests \ {r} : pc'[q] = pc[q] /\ result'[q] = result[q]
<1>1. /\ pc' = [pc EXCEPT ![r] = p] /\ read' = [read EXCEPT ![r] = 0]
      /\ result' = [result EXCEPT ![r] = res]
  BY DEF Conclude, Goto, Forget
<1>2. /\ pc' \in [Requests -> PC] /\ pc'[r] = p
      /\ \A q \in Requests \ {r} : pc'[q] = pc[q]
  BY <1>1 DEF TypeOK
<1>3. /\ result' \in [Requests -> [why : Reasons, number : Nat]] /\ result'[r] = res
      /\ \A q \in Requests \ {r} : result'[q] = result[q]
  BY <1>1 DEF TypeOK
<1>4. read' \in [Requests -> Nat]
  BY <1>1 DEF TypeOK
<1> QED
  BY <1>2, <1>3, <1>4

\* A step of one judgement that runs no script: what it must leave true of that
\* judgement.
LEMMA QuietStep ==
    ASSUME PInv, TypeOK', NEW r \in Requests,
           UNCHANGED <<attempt, hour, day, took, takers>>,
           \A q \in Requests \ {r} :
              /\ pc'[q] = pc[q] /\ route'[q] = route[q] /\ result'[q] = result[q]
              /\ bypassed'[q] = bypassed[q]
              /\ <<"take", q>> \in wire' => <<"take", q>> \in wire,
           pc'[r] = "read" /\ route'[r].kind = "thin" => ~route'[r].resub,
           pc'[r] = "trip" => ~route'[r].resub /\ route'[r].kind \in {"thin", "nothing", "question"},
           <<"take", r>> \in wire' => bypassed'[r] \/ pc'[r] = "dead",
           bypassed'[r] => pc'[r] \in {"reference", "done", "dead"},
           pc'[r] \in {"arrive", "read", "passes", "trip"} => ~took[r],
           pc'[r] \in {"reference", "done"} /\ ~bypassed'[r] => (took[r] <=> result'[r].why = "sent"),
           IsTold(r)' => ~took[r] \/ (IsTold(r) /\ result'[r].number = result[r].number)
    PROVE  PInv'
<1>1. CapsHold' /\ CountersHaveWindow' /\ TakersTook'
  BY DEF PInv, CapsHold, CountersHaveWindow, TakersTook
<1>2. TripAsks'
  BY DEF PInv, TripAsks
<1>3. LateIsBypassed' /\ BypassedIsPast'
  BY DEF PInv, LateIsBypassed, BypassedIsPast
<1>4. TookOnTrip'
  BY DEF PInv, TookOnTrip
<1>5. NumbersCounted'
  <2>1. ASSUME NEW n \in Notes, NEW q \in takers[n]
        PROVE  IsTold(q)' => IsTold(q) /\ result'[q].number = result[q].number
    <3>1. q \in Requests /\ took[q]
      BY DEF PInv, TypeOK, TakersTook
    <3>2. CASE q = r
      BY <3>1, <3>2
    <3>3. CASE q # r
      BY <3>1, <3>3 DEF IsTold
    <3> QED
      BY <3>2, <3>3
  <2> QED
    BY <2>1, ToldSame DEF PInv
<1> QED
  BY <1>1, <1>2, <1>3, <1>4, <1>5 DEF PInv

LEMMA ArrivePInv == ASSUME PInv, NEW r \in Requests, Arrive(r) PROVE PInv'
<1>u. UNCHANGED <<attempt, hour, day, took, takers, fp, wire, bypassed>> /\ pc[r] = "arrive"
  BY DEF Arrive, Counters
<1>n. ~took[r] /\ ~bypassed[r]
  BY <1>u, NotYetATaker
<1>1. PICK k \in {"unknown", "thin"}, b \in BOOLEAN :
         /\ route' = [route EXCEPT ![r] = [kind |-> k, resub |-> b]]
         /\ IF k = "thin" /\ b
              THEN Conclude(r, "done", [why |-> "resubmission", number |-> 0])
              ELSE Goto(r, "read") /\ UNCHANGED <<result, read>>
  BY DEF Arrive
<1>2. /\ route' \in [Requests -> Route] /\ route'[r] = [kind |-> k, resub |-> b]
      /\ \A q \in Requests \ {r} : route'[q] = route[q]
  BY <1>1 DEF PInv, TypeOK, Route, Kinds
<1>3. /\ read' \in [Requests -> Nat] /\ pc' \in [Requests -> PC]
      /\ result' \in [Requests -> [why : Reasons, number : Nat]]
      /\ pc'[r] \in {"done", "read"} /\ (pc'[r] = "done" => result'[r].why = "resubmission")
      /\ pc'[r] = "read" => ~(k = "thin" /\ b)
      /\ \A q \in Requests \ {r} : pc'[q] = pc[q] /\ result'[q] = result[q]
  <2>1. CASE k = "thin" /\ b
    <3>1. Conclude(r, "done", [why |-> "resubmission", number |-> 0])
      BY <1>1, <2>1
    <3>2. [why |-> "resubmission", number |-> 0] \in [why : Reasons, number : Nat] /\ "done" \in PC
      BY DEF Reasons, PC
    <3> QED
      BY <2>1, <3>1, <3>2, Concludes DEF PInv
  <2>2. CASE ~(k = "thin" /\ b)
    BY <1>1, <2>2 DEF PInv, TypeOK, Goto, PC
  <2> QED
    BY <2>1, <2>2
<1>4. TypeOK'
  BY <1>u, <1>2, <1>3 DEF PInv, TypeOK
<1>5. <<"take", r>> \notin wire
  BY <1>u, <1>n DEF PInv, LateIsBypassed
<1> QED
  BY <1>u, <1>n, <1>2, <1>3, <1>4, <1>5, QuietStep

LEMMA ReadPInv == ASSUME PInv, NEW r \in Requests, ReadAttempts(r) PROVE PInv'
<1>u. /\ UNCHANGED <<attempt, hour, day, took, takers, fp, wire, route, result, bypassed>>
      /\ pc[r] = "read"
  BY DEF ReadAttempts, Counters
<1>n. ~took[r] /\ ~bypassed[r]
  BY <1>u, NotYetATaker
<1>1. PICK v \in {attempt[NoteOf[r]].n, 0} : read' = [read EXCEPT ![r] = v]
  BY DEF ReadAttempts
<1>2. v \in Nat
  BY Constants DEF PInv, TypeOK
<1>3. read' \in [Requests -> Nat]
  BY <1>1, <1>2 DEF PInv, TypeOK
<1>4. /\ pc' = [pc EXCEPT ![r] = IF route[r].kind = "thin" THEN "trip" ELSE "passes"]
      /\ pc' \in [Requests -> PC] /\ pc'[r] \in {"trip", "passes"}
      /\ pc'[r] = "trip" => route[r].kind = "thin"
      /\ \A q \in Requests \ {r} : pc'[q] = pc[q]
  BY DEF PInv, TypeOK, ReadAttempts, Goto, PC
<1>5. TypeOK'
  BY <1>u, <1>3, <1>4 DEF PInv, TypeOK
<1>6. <<"take", r>> \notin wire
  BY <1>u, <1>n DEF PInv, LateIsBypassed
<1>7. route[r].kind = "thin" => ~route[r].resub
  BY <1>u DEF PInv, TripAsks
<1> QED
  BY <1>u, <1>n, <1>4, <1>5, <1>6, <1>7, QuietStep

\* The provisional decision, on an open window.
LEMMA Provisional ==
    ASSUME NEW rt \in Route, NEW a \in Nat, NEW c \in Nat
    PROVE  /\ Decide(rt, a, TRUE, c) \in [why : Reasons, number : Nat]
           /\ Decide(rt, a, TRUE, c).why = "sent" => rt.kind \notin {"silent", "nothing"} /\ ~rt.resub
           /\ Decide(rt, a, TRUE, c).why = "nothing_to_ask" => rt.kind = "nothing" /\ ~rt.resub
<1>1. PICK open \in BOOLEAN : open = TRUE
  OBVIOUS
<1> DEFINE d == Decide(rt, a, open, c)
<1>2. /\ d \in [why : Reasons, number : Nat]
      /\ d.why = "sent" => rt.kind \notin {"silent", "nothing"} /\ ~rt.resub
      /\ d.why = "nothing_to_ask" => rt.kind = "nothing" /\ ~rt.resub
  BY Decides
<1> QED
  BY <1>1, <1>2

LEMMA PassesPInv == ASSUME PInv, NEW r \in Requests, Passes(r) PROVE PInv'
<1>u. UNCHANGED <<attempt, hour, day, took, takers, fp, wire, bypassed>> /\ pc[r] = "passes"
  BY DEF Passes, Counters
<1>n. ~took[r] /\ ~bypassed[r] /\ <<"take", r>> \notin wire
  BY <1>u, NotYetATaker DEF PInv, LateIsBypassed
<1>t. route[r] \in Route /\ read[r] \in Nat
  BY DEF PInv, TypeOK
<1>1. PICK k \in {"silent", "nothing", "question"} :
         LET rt == [kind |-> k, resub |-> route[r].resub]
             provisional == Decide(rt, read[r], TRUE, 0) IN
         /\ route' = [route EXCEPT ![r] = rt]
         /\ IF provisional.why \in {"sent", "nothing_to_ask"}
              THEN Goto(r, "trip") /\ UNCHANGED <<result, read>>
              ELSE Conclude(r, "reference", provisional)
  BY DEF Passes
<1> DEFINE rt == [kind |-> k, resub |-> route[r].resub]
           provisional == Decide(rt, read[r], TRUE, 0)
<1>2. rt \in Route
  BY <1>t DEF Route, Kinds
<1>3. /\ provisional \in [why : Reasons, number : Nat]
      /\ provisional.why = "sent" => rt.kind \notin {"silent", "nothing"} /\ ~rt.resub
      /\ provisional.why = "nothing_to_ask" => rt.kind = "nothing" /\ ~rt.resub
  <2>1. ASSUME NEW x \in Route
        PROVE  LET d == Decide(x, read[r], TRUE, 0) IN
               /\ d \in [why : Reasons, number : Nat]
               /\ d.why = "sent" => x.kind \notin {"silent", "nothing"} /\ ~x.resub
               /\ d.why = "nothing_to_ask" => x.kind = "nothing" /\ ~x.resub
    BY <1>t, Provisional
  <2> QED
    BY <2>1, <1>2
<1>4. /\ route' \in [Requests -> Route] /\ route'[r] = rt
      /\ \A q \in Requests \ {r} : route'[q] = route[q]
  BY <1>1, <1>2 DEF PInv, TypeOK
<1>5. /\ read' \in [Requests -> Nat] /\ pc' \in [Requests -> PC]
      /\ result' \in [Requests -> [why : Reasons, number : Nat]]
      /\ \A q \in Requests \ {r} : pc'[q] = pc[q] /\ result'[q] = result[q]
      /\ \/ pc'[r] = "trip" /\ ~rt.resub /\ rt.kind \in {"nothing", "question"}
         \/ pc'[r] = "reference" /\ result'[r].why # "sent"
  <2>1. CASE provisional.why \in {"sent", "nothing_to_ask"}
    <3>1. pc' = [pc EXCEPT ![r] = "trip"] /\ UNCHANGED <<result, read>>
      BY <1>1, <2>1 DEF Goto
    <3> QED
      BY <1>3, <2>1, <3>1 DEF PInv, TypeOK, PC
  <2>2. CASE provisional.why \notin {"sent", "nothing_to_ask"}
    <3>1. Conclude(r, "reference", provisional) /\ "reference" \in PC
      BY <1>1, <2>2 DEF PC
    <3> HIDE DEF provisional
    <3>2. /\ pc' \in [Requests -> PC] /\ read' \in [Requests -> Nat]
          /\ result' \in [Requests -> [why : Reasons, number : Nat]]
          /\ pc'[r] = "reference" /\ result'[r] = provisional
          /\ \A q \in Requests \ {r} : pc'[q] = pc[q] /\ result'[q] = result[q]
      BY <1>3, <3>1, Concludes DEF PInv
    <3> QED
      BY <2>2, <3>2
  <2> QED
    BY <2>1, <2>2
<1>6. TypeOK'
  BY <1>u, <1>4, <1>5 DEF PInv, TypeOK
<1> HIDE DEF rt, provisional
<1>7. rt.resub => pc'[r] # "trip"
  BY <1>5
<1> QED
  BY <1>u, <1>n, <1>4, <1>5, <1>6, QuietStep

LEMMA BypassedPInv == ASSUME PInv, NEW r \in Requests, TakeBypassed(r) PROVE PInv'
<1>u. UNCHANGED <<attempt, hour, day, took, takers, fp, route>> /\ pc[r] = "trip"
  BY DEF TakeBypassed, Counters, Asking
<1>n. ~took[r]
  BY <1>u, NotYetATaker
<1>t. route[r] \in Route /\ read[r] \in Nat
  BY DEF PInv, TypeOK
<1> DEFINE d == Decide(route[r], read[r], TRUE, 0)
<1>1. d \in [why : Reasons, number : Nat] /\ After(r) \in {"done", "reference"} /\ After(r) \in PC
  BY <1>t, Decides DEF After, PC
<1>2. Conclude(r, After(r), d)
  BY DEF TakeBypassed
<1>3. /\ pc' \in [Requests -> PC] /\ read' \in [Requests -> Nat]
      /\ result' \in [Requests -> [why : Reasons, number : Nat]] /\ pc'[r] = After(r)
      /\ \A q \in Requests \ {r} : pc'[q] = pc[q] /\ result'[q] = result[q]
  BY <1>1, <1>2, Concludes DEF PInv
<1>4. /\ bypassed' \in [Requests -> BOOLEAN] /\ bypassed'[r]
      /\ \A q \in Requests \ {r} : bypassed'[q] = bypassed[q]
  BY DEF PInv, TypeOK, TakeBypassed
<1>5. wire' \subseteq wire \cup {<<"take", r>>}
  BY DEF TakeBypassed
<1>6. TypeOK'
  BY <1>u, <1>3, <1>4, <1>5 DEF PInv, TypeOK
<1>7. \A q \in Requests \ {r} : <<"take", q>> \in wire' => <<"take", q>> \in wire
  BY <1>5
<1> QED
  BY <1>u, <1>n, <1>1, <1>3, <1>4, <1>6, <1>7, QuietStep DEF IsTold

LEMMA RateReadPInv == ASSUME PInv, NEW r \in Requests, RateRead(r) PROVE PInv'
<1>u. /\ UNCHANGED <<attempt, hour, day, took, takers, fp, wire, route>>
      /\ pc[r] = "trip" /\ route[r].kind = "nothing"
  BY DEF RateRead, Counters
<1>n. ~took[r] /\ ~bypassed[r] /\ <<"take", r>> \notin wire
  BY <1>u, NotYetATaker DEF PInv, LateIsBypassed
<1>t. route[r] \in Route /\ read[r] \in Nat /\ hour[SubjectOf[r]].n \in Nat
  BY Constants DEF PInv, TypeOK
<1>1. PICK c \in {hour[SubjectOf[r]].n, 0} :
         Conclude(r, "reference", Decide(route[r], read[r], TRUE, c))
  BY DEF RateRead
<1> DEFINE d == Decide(route[r], read[r], TRUE, c)
<1>2. d \in [why : Reasons, number : Nat] /\ d.why # "sent" /\ "reference" \in PC
  <2>1. c \in Nat
    BY <1>t
  <2>2. /\ d \in [why : Reasons, number : Nat]
        /\ d.why = "sent" => route[r].kind \notin {"silent", "nothing"}
    BY <2>1, <1>t, Provisional
  <2> QED
    BY <2>2, <1>u DEF PC
<1>c. Conclude(r, "reference", d)
  BY <1>1
<1> HIDE DEF d
<1>3. /\ pc' \in [Requests -> PC] /\ read' \in [Requests -> Nat]
      /\ result' \in [Requests -> [why : Reasons, number : Nat]]
      /\ pc'[r] = "reference" /\ result'[r].why # "sent"
      /\ \A q \in Requests \ {r} : pc'[q] = pc[q] /\ result'[q] = result[q]
  BY <1>c, <1>2, Concludes DEF PInv
<1>4. /\ bypassed' \in [Requests -> BOOLEAN]
      /\ \A q \in Requests \ {r} : bypassed'[q] = bypassed[q]
  BY DEF PInv, TypeOK, RateRead
<1>5. TypeOK'
  BY <1>u, <1>3, <1>4 DEF PInv, TypeOK
<1> QED
  BY <1>u, <1>n, <1>3, <1>4, <1>5, QuietStep

LEMMA WriteTyped ==
    ASSUME TypeOK, NEW r \in Requests, Write(r)
    PROVE  fp' \in [Notes -> [by : Requests \cup {Nobody}, ttl : 0..AttemptTtl]]
<1>1. [by |-> r, ttl |-> AttemptTtl] \in [by : Requests \cup {Nobody}, ttl : 0..AttemptTtl]
  BY Constants
<1> QED
  BY <1>1 DEF Write, TypeOK

LEMMA ReferencePInv == ASSUME PInv, NEW r \in Requests, Reference(r) PROVE PInv'
<1>u. /\ UNCHANGED <<attempt, hour, day, took, takers, route, read, result, bypassed>>
      /\ pc[r] = "reference" /\ pc' = [pc EXCEPT ![r] = "done"]
  BY DEF Reference, Counters, Goto
<1>1. /\ fp' \in [Notes -> [by : Requests \cup {Nobody}, ttl : 0..AttemptTtl]]
      /\ wire' \subseteq wire \cup {<<"write", r>>}
  <2>1. Write(r) => fp' \in [Notes -> [by : Requests \cup {Nobody}, ttl : 0..AttemptTtl]]
    BY WriteTyped DEF PInv
  <2> QED
    BY <2>1 DEF Reference, PInv, TypeOK
<1>2. /\ pc' \in [Requests -> PC] /\ pc'[r] = "done"
      /\ \A q \in Requests \ {r} : pc'[q] = pc[q]
  BY <1>u DEF PInv, TypeOK, PC
<1>3. TypeOK'
  BY <1>u, <1>1, <1>2 DEF PInv, TypeOK
<1>4. \A q \in Requests : <<"take", q>> \in wire' => <<"take", q>> \in wire
  BY <1>1
<1>5. <<"take", r>> \in wire => bypassed[r]
  BY <1>u DEF PInv, LateIsBypassed
<1>6. ~bypassed[r] => (took[r] <=> result[r].why = "sent")
  BY <1>u DEF PInv, TookOnTrip
<1>7. IsTold(r)' => IsTold(r)
  BY <1>u DEF IsTold
<1> QED
  BY <1>u, <1>2, <1>3, <1>4, <1>5, <1>6, <1>7, QuietStep

LEMMA AbandonPInv == ASSUME PInv, NEW r \in Requests, Abandon(r) PROVE PInv'
<1>u. /\ UNCHANGED <<attempt, hour, day, took, takers, fp, route, result, bypassed>>
      /\ pc' = [pc EXCEPT ![r] = "dead"] /\ read' = [read EXCEPT ![r] = 0]
  BY DEF Abandon, Counters, Goto, Forget
<1>1. wire' \subseteq wire \cup {<<"take", r>>, <<"write", r>>}
  BY DEF Abandon
<1>2. /\ pc' \in [Requests -> PC] /\ pc'[r] = "dead" /\ read' \in [Requests -> Nat]
      /\ \A q \in Requests \ {r} : pc'[q] = pc[q]
  BY <1>u DEF PInv, TypeOK, PC
<1>3. TypeOK'
  BY <1>u, <1>1, <1>2 DEF PInv, TypeOK
<1>4. \A q \in Requests \ {r} : <<"take", q>> \in wire' => <<"take", q>> \in wire
  BY <1>1
<1>5. ~IsTold(r)'
  BY <1>2 DEF IsTold
<1> QED
  BY <1>u, <1>2, <1>3, <1>4, <1>5, QuietStep

LEMMA Decoded ==
    ASSUME NEW code, NEW n \in Nat, NEW h \in Nat
    PROVE  PromptSlotsAnswer(<<code, n, h>>) =
               [attempts |-> IF code = 2 THEN n - 1 ELSE n, allowed |-> code # 1, count |-> h]
BY DEF PromptSlotsAnswer

\* The script's answer, decoded and decided: a slot is taken exactly when the
\* question goes out, and the number told is the counter's new value.
LEMMA AnswerDecided ==
    ASSUME PInv, NEW r \in Requests, Asking(r)
    PROVE  LET a == PromptSlotsAnswer(ReplyFor(r))
               d == Decide(route[r], a.attempts, a.allowed, a.count) IN
           /\ d \in [why : Reasons, number : Nat]
           /\ ReplyFor(r)[1] = 2 <=> d.why = "sent"
           /\ ReplyFor(r)[1] = 2 => d.number = attempt[NoteOf[r]].n + 1
<1> DEFINE a == PromptSlotsAnswer(ReplyFor(r))
           d == Decide(route[r], a.attempts, a.allowed, a.count)
<1>1. /\ attempt[NoteOf[r]].n \in Nat /\ hour[SubjectOf[r]].n \in Nat /\ day[SubjectOf[r]].n \in Nat
  BY Constants DEF PInv, TypeOK
<1>2. route[r] \in Route /\ route[r].kind \in {"thin", "question"} /\ ~route[r].resub
  BY DEF PInv, TypeOK, TripAsks, Asking
<1>6. PICK at \in Nat, h \in Nat, code \in {0, 1, 2}, n \in Nat :
         /\ at = attempt[NoteOf[r]].n /\ ReplyFor(r) = <<code, n, h>>
         /\ code = 0 => n = at /\ at >= Cap
         /\ code = 1 => n = at
         /\ code = 2 => n = at + 1 /\ at < Cap /\ h < RateHour
  <2>1. \/ ReplyFor(r) = <<0, attempt[NoteOf[r]].n, 0>> /\ attempt[NoteOf[r]].n >= Cap
        \/ ReplyFor(r) = <<1, attempt[NoteOf[r]].n, hour[SubjectOf[r]].n>>
        \/ /\ ReplyFor(r) = <<2, attempt[NoteOf[r]].n + 1, hour[SubjectOf[r]].n>>
           /\ attempt[NoteOf[r]].n < Cap /\ hour[SubjectOf[r]].n < RateHour
    BY Replies DEF PInv
  <2> QED
    BY <1>1, <2>1
<1>7. PICK open \in BOOLEAN : open <=> code # 1
  OBVIOUS
<1>8. a = [attempts |-> IF code = 2 THEN n - 1 ELSE n, allowed |-> open, count |-> h]
  BY <1>6, <1>7, Decoded
<1>9. a.attempts = at /\ a.allowed = open /\ a.count = h
  BY <1>6, <1>8
<1>10. d = Decide(route[r], at, open, h)
  BY <1>9
<1>11. ReplyFor(r)[1] = code
  BY <1>6
<1> HIDE DEF a, d
<1>12. d \in [why : Reasons, number : Nat] /\ (d.why = "sent" => at < Cap /\ open)
  BY <1>2, <1>10, Decides
<1>13. d.why = "sent" => code = 2
  BY <1>6, <1>7, <1>12, Constants
<1>14. code = 2 => d.why = "sent" /\ d.number = at + 1
  <2>1. code = 2 => open = TRUE /\ at < Cap /\ h < RateHour
    BY <1>6, <1>7
  <2>2. code = 2 => d = Decide(route[r], at, TRUE, h)
    BY <1>10, <2>1
  <2>3. ASSUME at < Cap, h < RateHour
        PROVE  /\ Decide(route[r], at, TRUE, h).why = "sent"
               /\ Decide(route[r], at, TRUE, h).number = at + 1
    <3>1. route[r].kind \notin {"silent", "nothing"} /\ ~route[r].resub /\ route[r] \in Route
      BY <1>2
    <3> QED
      BY <2>3, <3>1, Sends
  <2> QED
    BY <2>1, <2>2, <2>3
<1>15. /\ d \in [why : Reasons, number : Nat]
       /\ ReplyFor(r)[1] = 2 <=> d.why = "sent"
       /\ ReplyFor(r)[1] = 2 => d.number = attempt[NoteOf[r]].n + 1
  BY <1>6, <1>11, <1>12, <1>13, <1>14
<1> QED
  BY <1>15 DEF a, d

\* Who has taken, after a script ran for r.
LEMMA ScriptTakers ==
    ASSUME PInv, NEW r \in Requests, TakeScript(r)
    PROVE  /\ took' \in [Requests -> BOOLEAN] /\ takers' \in [Notes -> SUBSET Requests]
           /\ took'[r] = (took[r] \/ ReplyFor(r)[1] = 2)
           /\ \A q \in Requests \ {r} : took'[q] = took[q]
           /\ \A n \in Notes : takers[n] \subseteq takers'[n] /\ takers'[n] \subseteq takers[n] \cup {r}
           /\ TakersTook'
           /\ ReplyFor(r)[1] # 2 => UNCHANGED <<attempt, took, takers>>
           /\ ReplyFor(r)[1] = 2 => attempt'[NoteOf[r]].n = attempt[NoteOf[r]].n + 1
<1>k. NoteOf[r] \in Notes /\ SubjectOf[r] \in Subjects
  BY Constants
<1>1. CASE ReplyFor(r)[1] # 2
  BY <1>1 DEF TakeScript, PInv, TypeOK, TakersTook
<1>2. CASE ReplyFor(r)[1] = 2
  <2>1. /\ took' = [took EXCEPT ![r] = TRUE]
        /\ takers' = [takers EXCEPT ![NoteOf[r]] = takers[NoteOf[r]] \cup {r}]
        /\ attempt' = [attempt EXCEPT ![NoteOf[r]] = Incr(attempt[NoteOf[r]], AttemptTtl)]
    BY <1>2 DEF TakeScript
  <2>2. /\ took' \in [Requests -> BOOLEAN] /\ took'[r]
        /\ \A q \in Requests \ {r} : took'[q] = took[q]
    BY <2>1 DEF PInv, TypeOK
  <2>3. /\ takers' \in [Notes -> SUBSET Requests]
        /\ \A n \in Notes : takers'[n] = IF n = NoteOf[r] THEN takers[n] \cup {r} ELSE takers[n]
    BY <2>1, <1>k DEF PInv, TypeOK
  <2>4. TakersTook'
    <3>1. ASSUME NEW n \in Notes, NEW q \in takers'[n] PROVE took'[q] /\ NoteOf[q] = n
      <4>1. CASE q \in takers[n]
        BY <4>1, <2>2 DEF PInv, TypeOK, TakersTook
      <4>2. CASE q \notin takers[n]
        BY <4>2, <2>2, <2>3
      <4> QED
        BY <4>1, <4>2
    <3> QED
      BY <3>1 DEF TakersTook
  <2>5. attempt'[NoteOf[r]].n = attempt[NoteOf[r]].n + 1
    BY <2>1, <1>k DEF PInv, TypeOK, Incr
  <2>6. took'[r] = (took[r] \/ ReplyFor(r)[1] = 2)
    BY <1>2, <2>2 DEF PInv, TypeOK
  <2> QED
    BY <1>2, <2>2, <2>3, <2>4, <2>5, <2>6
<1> QED
  BY <1>1, <1>2

LEMMA AnsweredPInv == ASSUME PInv, NEW r \in Requests, TakeAnswered(r) PROVE PInv'
<1> DEFINE a == PromptSlotsAnswer(ReplyFor(r))
           d == Decide(route[r], a.attempts, a.allowed, a.count)
<1>u. /\ UNCHANGED <<fp, wire, route, bypassed>> /\ Asking(r) /\ pc[r] = "trip" /\ TakeScript(r)
      /\ Conclude(r, After(r), d)
  BY DEF TakeAnswered, Asking
<1>n. ~took[r] /\ ~bypassed[r] /\ <<"take", r>> \notin wire /\ \A n \in Notes : r \notin takers[n]
  BY <1>u, NotYetATaker DEF PInv, LateIsBypassed
<1>1. /\ d \in [why : Reasons, number : Nat]
      /\ ReplyFor(r)[1] = 2 <=> d.why = "sent"
      /\ ReplyFor(r)[1] = 2 => d.number = attempt[NoteOf[r]].n + 1
  BY <1>u, AnswerDecided
<1> HIDE DEF a, d
<1>2. After(r) \in {"done", "reference"} /\ After(r) \in PC
  BY DEF After, PC
<1>3. /\ pc' \in [Requests -> PC] /\ read' \in [Requests -> Nat]
      /\ result' \in [Requests -> [why : Reasons, number : Nat]]
      /\ pc'[r] = After(r) /\ result'[r] = d
      /\ \A q \in Requests \ {r} : pc'[q] = pc[q] /\ result'[q] = result[q]
  BY <1>u, <1>1, <1>2, Concludes DEF PInv
<1>4. /\ attempt' \in [Notes -> [n : Nat, ttl : -1..AttemptTtl]]
      /\ hour' \in [Subjects -> [n : Nat, ttl : 0..HourTtl]]
      /\ day' \in [Subjects -> [n : Nat, ttl : 0..DayTtl]]
      /\ CapsHold' /\ CountersHaveWindow' /\ \A n \in Notes : attempt'[n].n >= attempt[n].n
  BY <1>u, ScriptCounters DEF PInv
<1>5. /\ took' \in [Requests -> BOOLEAN] /\ takers' \in [Notes -> SUBSET Requests]
      /\ took'[r] = (took[r] \/ ReplyFor(r)[1] = 2)
      /\ \A q \in Requests \ {r} : took'[q] = took[q]
      /\ \A n \in Notes : takers[n] \subseteq takers'[n] /\ takers'[n] \subseteq takers[n] \cup {r}
      /\ TakersTook'
      /\ ReplyFor(r)[1] # 2 => UNCHANGED <<attempt, took, takers>>
      /\ ReplyFor(r)[1] = 2 => attempt'[NoteOf[r]].n = attempt[NoteOf[r]].n + 1
  BY <1>u, ScriptTakers
<1>6. TypeOK'
  BY <1>u, <1>3, <1>4, <1>5 DEF PInv, TypeOK
<1>7. TripAsks' /\ LateIsBypassed' /\ BypassedIsPast'
  BY <1>u, <1>n, <1>2, <1>3 DEF PInv, TripAsks, LateIsBypassed, BypassedIsPast
<1>8. TookOnTrip'
  BY <1>u, <1>n, <1>1, <1>2, <1>3, <1>5 DEF PInv, TookOnTrip
<1>9. NumbersCounted'
  <2>1. ASSUME NEW n \in Notes, NEW q \in takers'[n], NEW s \in takers'[n]
        PROVE  /\ IsTold(q)' => result'[q].number \in 1..attempt'[n].n
               /\ IsTold(q)' /\ IsTold(s)' /\ result'[q].number = result'[s].number => q = s
    <3>1. /\ attempt[n].n \in Nat /\ attempt'[n].n \in Nat /\ attempt'[n].n >= attempt[n].n
          /\ q \in Requests /\ s \in Requests /\ NoteOf[q] = n /\ NoteOf[s] = n
          /\ took'[q] /\ took'[s]
      BY <1>4, <1>5 DEF PInv, TypeOK, TakersTook
    <3>2. ASSUME NEW x \in takers'[n], x # r
          PROVE  /\ x \in takers[n] /\ (IsTold(x)' <=> IsTold(x)) /\ result'[x] = result[x]
                 /\ IsTold(x)' => result'[x].number \in 1..attempt[n].n
      <4>1. x \in takers[n] /\ x \in Requests
        BY <3>2, <1>5
      <4>2. pc'[x] = pc[x] /\ result'[x] = result[x]
        BY <1>3, <3>2, <4>1
      <4> QED
        BY <4>1, <4>2, <1>u DEF PInv, NumbersCounted, IsTold
    <3>3. ASSUME NEW x \in takers'[n], x = r
          PROVE  result'[x].number = attempt[n].n + 1 /\ attempt'[n].n = attempt[n].n + 1
      BY <3>1, <3>3, <1>n, <1>1, <1>3, <1>5 DEF TakersTook
    <3>4. IsTold(q)' => result'[q].number \in 1..attempt'[n].n
      BY <3>1, <3>2, <3>3
    <3>5. ASSUME IsTold(q)', IsTold(s)', result'[q].number = result'[s].number PROVE q = s
      <4>1. CASE q # r /\ s # r
        BY <4>1, <3>2, <3>5 DEF PInv, NumbersCounted
      <4>2. CASE q = r /\ s # r
        BY <4>2, <3>1, <3>2, <3>3, <3>5
      <4>3. CASE q # r /\ s = r
        BY <4>3, <3>1, <3>2, <3>3, <3>5
      <4> QED
        BY <4>1, <4>2, <4>3
    <3> QED
      BY <3>4, <3>5
  <2> QED
    BY <2>1 DEF NumbersCounted
<1> QED
  BY <1>4, <1>5, <1>6, <1>7, <1>8, <1>9 DEF PInv

\* A script that lands late counts, but its judgement is told nothing by it.
LEMMA LatePInv == ASSUME PInv, Late PROVE PInv'
<1>1. PICK c \in wire :
         /\ wire' = wire \ {c}
         /\ \/ c[1] = "take" /\ TakeScript(c[2]) /\ UNCHANGED fp
            \/ c[1] = "write" /\ Write(c[2]) /\ UNCHANGED Counters
            \/ UNCHANGED <<Counters, fp>>
         /\ UNCHANGED <<pc, route, read, result, bypassed>>
  BY DEF Late
<1> DEFINE r == c[2]
<1>2. r \in Requests /\ c = <<c[1], r>> /\ wire' \subseteq wire
  BY <1>1 DEF PInv, TypeOK
<1>3. CASE c[1] = "take" /\ TakeScript(r) /\ UNCHANGED fp
  <2>1. ~IsTold(r) /\ (bypassed[r] \/ pc[r] = "dead") /\ pc[r] \in {"reference", "done", "dead"}
    BY <1>2, <1>3 DEF PInv, LateIsBypassed, BypassedIsPast, IsTold
  <2> HIDE DEF r
  <2>2. /\ attempt' \in [Notes -> [n : Nat, ttl : -1..AttemptTtl]]
        /\ hour' \in [Subjects -> [n : Nat, ttl : 0..HourTtl]]
        /\ day' \in [Subjects -> [n : Nat, ttl : 0..DayTtl]]
        /\ CapsHold' /\ CountersHaveWindow' /\ \A n \in Notes : attempt'[n].n >= attempt[n].n
    BY <1>2, <1>3, ScriptCounters DEF PInv
  <2>3. /\ took' \in [Requests -> BOOLEAN] /\ takers' \in [Notes -> SUBSET Requests]
        /\ \A q \in Requests \ {r} : took'[q] = took[q]
        /\ \A n \in Notes : takers'[n] \subseteq takers[n] \cup {r}
        /\ TakersTook'
    BY <1>2, <1>3, ScriptTakers
  <2>4. TypeOK'
    BY <1>1, <1>3, <2>2, <2>3 DEF PInv, TypeOK
  <2>5. TripAsks' /\ LateIsBypassed' /\ BypassedIsPast'
    BY <1>1, <1>2 DEF PInv, TripAsks, LateIsBypassed, BypassedIsPast
  <2>6. TookOnTrip'
    BY <1>1, <2>1, <2>3 DEF PInv, TookOnTrip
  <2>7. NumbersCounted'
    <3>1. ASSUME NEW n \in Notes, NEW q \in takers'[n], IsTold(q)'
          PROVE  q \in takers[n] /\ IsTold(q) /\ result'[q] = result[q]
      BY <1>1, <2>1, <2>3, <3>1 DEF IsTold
    <3>2. \A n \in Notes : attempt[n].n \in Nat /\ attempt'[n].n \in Nat /\ attempt'[n].n >= attempt[n].n
      BY <2>2 DEF PInv, TypeOK
    <3>3. ASSUME NEW n \in Notes, NEW q \in takers'[n], IsTold(q)'
          PROVE  result'[q].number \in 1..attempt'[n].n
      <4>1. result[q].number \in 1..attempt[n].n
        BY <3>1, <3>3 DEF PInv, NumbersCounted
      <4> QED
        BY <3>1, <3>2, <3>3, <4>1
    <3>4. ASSUME NEW n \in Notes, NEW q \in takers'[n], NEW s \in takers'[n],
                 IsTold(q)', IsTold(s)', result'[q].number = result'[s].number
          PROVE  q = s
      BY <3>1, <3>4 DEF PInv, NumbersCounted
    <3> QED
      BY <3>3, <3>4 DEF NumbersCounted
  <2> QED
    BY <2>2, <2>3, <2>4, <2>5, <2>6, <2>7 DEF PInv
<1>4. CASE UNCHANGED Counters /\ (Write(r) \/ UNCHANGED fp)
  <2>1. fp' \in [Notes -> [by : Requests \cup {Nobody}, ttl : 0..AttemptTtl]]
    BY <1>2, <1>4, WriteTyped DEF PInv, TypeOK
  <2>2. UNCHANGED <<attempt, hour, day, took, takers>>
    BY <1>4 DEF Counters
  <2>3. TypeOK'
    BY <1>1, <1>2, <2>1, <2>2 DEF PInv, TypeOK
  <2>4. CapsHold' /\ CountersHaveWindow' /\ TakersTook'
    BY <2>2 DEF PInv, CapsHold, CountersHaveWindow, TakersTook
  <2>5. TripAsks' /\ LateIsBypassed' /\ BypassedIsPast' /\ TookOnTrip'
    BY <1>1, <1>2, <2>2 DEF PInv, TripAsks, LateIsBypassed, BypassedIsPast, TookOnTrip
  <2>6. NumbersCounted'
    BY <1>1, <2>2, ToldSame DEF PInv, IsTold
  <2> QED
    BY <2>3, <2>4, <2>5, <2>6 DEF PInv
<1> QED
  BY <1>1, <1>3, <1>4

\* When a counter's window ends it forgets its takers.
LEMMA TickPInv == ASSUME PInv, Tick PROVE PInv'
<1>1. /\ UNCHANGED <<wire, pc, route, read, result, took, bypassed>>
      /\ takers' = [n \in Notes |-> IF attempt[n].ttl = 1 THEN {} ELSE takers[n]]
      /\ fp' = [n \in Notes |-> IF fp[n].ttl <= 1 THEN NoReference
                                ELSE [fp[n] EXCEPT !.ttl = fp[n].ttl - 1]]
  BY DEF Tick
<1>2. /\ attempt' \in [Notes -> [n : Nat, ttl : -1..AttemptTtl]]
      /\ hour' \in [Subjects -> [n : Nat, ttl : 0..HourTtl]]
      /\ day' \in [Subjects -> [n : Nat, ttl : 0..DayTtl]]
      /\ CapsHold' /\ CountersHaveWindow'
      /\ \A n \in Notes : attempt[n].ttl # 1 => attempt'[n].n = attempt[n].n
  BY TickCounters DEF PInv
<1>3. fp' \in [Notes -> [by : Requests \cup {Nobody}, ttl : 0..AttemptTtl]]
  <2>1. ASSUME NEW n \in Notes
        PROVE  (IF fp[n].ttl <= 1 THEN NoReference ELSE [fp[n] EXCEPT !.ttl = fp[n].ttl - 1])
               \in [by : Requests \cup {Nobody}, ttl : 0..AttemptTtl]
    BY Constants DEF PInv, TypeOK, NoReference
  <2> QED
    BY <1>1, <2>1
<1>4. /\ takers' \in [Notes -> SUBSET Requests]
      /\ \A n \in Notes : takers'[n] \subseteq takers[n] /\ (attempt[n].ttl = 1 => takers'[n] = {})
  BY <1>1 DEF PInv, TypeOK
<1>5. TypeOK'
  BY <1>1, <1>2, <1>3, <1>4 DEF PInv, TypeOK
<1>6. TripAsks' /\ LateIsBypassed' /\ BypassedIsPast' /\ TookOnTrip'
  BY <1>1 DEF PInv, TripAsks, LateIsBypassed, BypassedIsPast, TookOnTrip
<1>7. TakersTook'
  BY <1>1, <1>4 DEF PInv, TakersTook
<1>8. NumbersCounted'
  <2>1. ASSUME NEW n \in Notes, NEW q \in takers'[n], NEW s \in takers'[n]
        PROVE  /\ IsTold(q)' => result'[q].number \in 1..attempt'[n].n
               /\ IsTold(q)' /\ IsTold(s)' /\ result'[q].number = result'[s].number => q = s
    <3>1. q \in takers[n] /\ s \in takers[n] /\ attempt'[n].n = attempt[n].n
      BY <1>2, <1>4
    <3> QED
      BY <1>1, <3>1 DEF PInv, NumbersCounted, IsTold
  <2> QED
    BY <2>1 DEF NumbersCounted
<1> QED
  BY <1>2, <1>5, <1>6, <1>7, <1>8 DEF PInv

LEMMA NextPInv == PInv /\ [Next]_vars => PInv'
<1> SUFFICES ASSUME PInv, [Next]_vars PROVE PInv'
  OBVIOUS
<1>1. ASSUME NEW r \in Requests, Step(r) PROVE PInv'
  <2>1. CASE Arrive(r)        BY <2>1, ArrivePInv
  <2>2. CASE ReadAttempts(r)  BY <2>2, ReadPInv
  <2>3. CASE Passes(r)        BY <2>3, PassesPInv
  <2>4. CASE TakeAnswered(r)  BY <2>4, AnsweredPInv
  <2>5. CASE TakeBypassed(r)  BY <2>5, BypassedPInv
  <2>6. CASE RateRead(r)      BY <2>6, RateReadPInv
  <2>7. CASE Reference(r)     BY <2>7, ReferencePInv
  <2>8. CASE Abandon(r)       BY <2>8, AbandonPInv
  <2> QED
    BY <1>1, <2>1, <2>2, <2>3, <2>4, <2>5, <2>6, <2>7, <2>8 DEF Step
<1>2. CASE UNCHANGED vars
  BY <1>2 DEF vars, PInv, TypeOK, CapsHold, CountersHaveWindow, TripAsks, LateIsBypassed,
              BypassedIsPast, TookOnTrip, TakersTook, NumbersCounted, IsTold
<1> QED
  BY <1>1, <1>2, LatePInv, TickPInv DEF Next

-----------------------------------------------------------------------------
(* What holds of every behaviour *)

LEMMA SpecPInv == Spec => []PInv
BY InitPInv, NextPInv, PTL DEF Spec

\* Whatever the number of judgements, their overlaps and the scripts that land
\* late, no attempt, hourly or daily counter passes its limit.
THEOREM PromptCapsHold == Spec => []CapsHold
<1>1. PInv => CapsHold
  BY DEF PInv
<1> QED
  BY <1>1, SpecPInv, PTL

\* A judgement answered by the store took its slots exactly when its question
\* goes out.
THEOREM PromptSlotTakenIffSent == Spec => []SlotTakenIffSent
<1>1. PInv => SlotTakenIffSent
  BY DEF PInv, TookOnTrip, SlotTakenIffSent
<1> QED
  BY <1>1, SpecPInv, PTL

\* The attempt numbers told for one note are 1 to Cap, each once in the life of
\* its counter.
THEOREM PromptNumbersDistinct == Spec => []AttemptNumbersDistinct
<1>1. PInv => AttemptNumbersDistinct
  <2> SUFFICES ASSUME PInv, NEW n \in Notes, NEW r \in takers[n], NEW s \in takers[n],
                      IsTold(r), IsTold(s)
               PROVE  /\ result[r].number \in 1..Cap
                      /\ result[r].number = result[s].number => r = s
    BY DEF AttemptNumbersDistinct, IsTold
  <2>1. result[r].number \in 1..attempt[n].n /\ (result[r].number = result[s].number => r = s)
    BY DEF PInv, NumbersCounted
  <2>2. attempt[n].n \in Nat /\ attempt[n].n <= Cap
    BY DEF PInv, TypeOK, CapsHold
  <2> QED
    BY <2>1, <2>2, Constants
<1> QED
  BY <1>1, SpecPInv, PTL

\* A window that is running only runs down.
THEOREM PromptWindowsRunDown == Spec => WindowsRunDown
<1> DEFINE RunDown == /\ \A n \in Notes : attempt[n].ttl > 0 => attempt'[n].ttl <= attempt[n].ttl
                      /\ \A s \in Subjects : /\ hour[s].ttl > 0 => hour'[s].ttl <= hour[s].ttl
                                             /\ day[s].ttl > 0 => day'[s].ttl <= day[s].ttl
<1>1. PInv /\ [Next]_vars => [RunDown]_vars
  <2> SUFFICES ASSUME PInv, Next PROVE RunDown
    OBVIOUS
  <2>1. ASSUME UNCHANGED <<attempt, hour, day>> PROVE RunDown
    <3>1. /\ \A n \in Notes : attempt[n].ttl \in Int
          /\ \A s \in Subjects : hour[s].ttl \in Int /\ day[s].ttl \in Int
      BY Constants DEF PInv, TypeOK
    <3> QED
      BY <2>1, <3>1
  <2>2. ASSUME NEW r \in Requests, TakeScript(r) PROVE RunDown
    BY <2>2, ScriptCounters DEF PInv
  <2>3. CASE Tick
    BY <2>3, TickCounters DEF PInv
  <2>4. CASE Late
    <3>1. \/ \E r \in Requests : TakeScript(r)
          \/ UNCHANGED <<attempt, hour, day>>
      BY <2>4 DEF Late, Counters, PInv, TypeOK
    <3> QED
      BY <2>1, <2>2, <3>1
  <2>5. ASSUME NEW r \in Requests, Step(r) PROVE RunDown
    <3>1. TakeScript(r) \/ UNCHANGED <<attempt, hour, day>>
      BY <2>5 DEF Step, Arrive, ReadAttempts, Passes, TakeAnswered, TakeBypassed, RateRead,
                  Reference, Abandon, Counters
    <3> QED
      BY <2>1, <2>2, <3>1
  <2> QED
    BY <2>3, <2>4, <2>5 DEF Next
<1> QED
  BY <1>1, SpecPInv, PTL DEF Spec, WindowsRunDown
=============================================================================

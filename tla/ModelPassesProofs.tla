--------------------------- MODULE ModelPassesProofs ---------------------------
(***************************************************************************)
(* The paid passes of one judgement, with and without a fallback provider. *)
(* The inductive invariant has three parts: where each pass can be in each *)
(* stage of the judgement, what has been billed for each call, and what    *)
(* has been charged for each answer.  The one that carries the spending is *)
(* that a pass which is still asking has not been billed for that call by  *)
(* anybody: it is why the fallback may be asked.                           *)
(***************************************************************************)
EXTENDS ModelPasses, FiniteSetTheorems, TLAPS

\* Where the passes are in each stage of the judgement.
StagesOf ==
    /\ \A p \in Passes : pc[p] = "stopped" <=> outcome[p] # "none"
    /\ judge = "classify" => pc["classify"] # "idle" /\ \A p \in Pair : pc[p] = "idle"
    /\ judge \in {"gather", "drain"} =>
          outcome["classify"] = "ok" /\ \A p \in Pair : pc[p] # "idle"
    /\ judge = "done" => \A p \in Passes : ~Running(p)

\* What the judgement will say is what its passes ended in.
ResultsOf ==
    /\ judge \in {"classify", "gather"} => result = "none" /\ ~cancelled
    /\ judge \in {"drain", "done"} => (result = "cancelled" <=> cancelled)
    /\ judge = "drain" => result \in {"cancelled"} \cup Errors
    /\ result \in Errors => \E p \in Passes : outcome[p] = result
    /\ result = "judged" => \A p \in Passes : outcome[p] = "ok"
    /\ result = "suppressed" => judge = "done" /\ \A p \in Pair : pc[p] = "idle"

\* What the providers can have billed.
BillsOf ==
    /\ \A p \in Passes : attempt[p] = 2 => reprompt /\ pc[p] # "idle"
    /\ \A p \in Passes, a \in {1, 2}, q \in Providers : <<p, a, q>> \in billed =>
          /\ a <= attempt[p] /\ pc[p] # "idle"
          /\ pc[p] = "asking" => a < attempt[p]
          /\ \A other \in Providers : <<p, a, other>> \in billed => other = q

\* What the counters have been charged.
ChargesOf ==
    \A p \in Passes, a \in {1, 2} :
       /\ <<p, a>> \in charged =>
             a <= attempt[p] /\ pc[p] # "idle" /\ (Running(p) => a < attempt[p])
       /\ ~uncharged /\ pc[p] # "idle" /\ a < attempt[p] => <<p, a>> \in charged
       /\ ~uncharged /\ outcome[p] = "ok" /\ a = attempt[p] => <<p, a>> \in charged

PassesInv == TypeOK /\ StagesOf /\ ResultsOf /\ BillsOf /\ ChargesOf

-----------------------------------------------------------------------------
LEMMA InitPassesInv == Init => PassesInv
<1> SUFFICES ASSUME Init PROVE PassesInv
  OBVIOUS
<1>1. TypeOK
  BY Zenon DEF Init, TypeOK, Passes, Pair, Providers, Errors
<1>2. StagesOf /\ ResultsOf /\ BillsOf /\ ChargesOf
  BY DEF Init, StagesOf, ResultsOf, BillsOf, ChargesOf, Passes, Pair, Errors, Running
<1> QED
  BY <1>1, <1>2 DEF PassesInv

\* An answer is charged at most up to the attempt its pass has reached.
LEMMA ChargedUpTo ==
    ASSUME ChargesOf, NEW p \in Passes, NEW a \in {1, 2}, <<p, a>> \in charged
    PROVE  a <= attempt[p] /\ pc[p] # "idle"
BY DEF ChargesOf

\* A pass that is awaiting its provider may be billed for that call by that
\* provider, whatever becomes of it next: nobody else has billed it.
LEMMA BillOnce ==
    ASSUME TypeOK, BillsOf, NEW p \in Passes, pc[p] = "asking",
           UNCHANGED <<attempt, reprompt>>, billed' = billed \/ billed' = billed \cup {Call(p)},
           pc'[p] # "idle", billed' # billed => pc'[p] # "asking",
           \A q \in Passes \ {p} : pc'[q] = pc[q]
    PROVE  BillsOf' /\ billed' \subseteq Passes \X {1, 2} \X Providers
<1>1. Call(p) \in Passes \X {1, 2} \X Providers
  BY DEF TypeOK, Call
<1>2. billed' \subseteq Passes \X {1, 2} \X Providers
  BY <1>1 DEF TypeOK
<1>3. ASSUME NEW q \in Passes, NEW a \in {1, 2}, NEW s \in Providers, <<q, a, s>> \in billed'
      PROVE  /\ a <= attempt[q] /\ pc'[q] # "idle"
             /\ pc'[q] = "asking" => a < attempt[q]
             /\ \A other \in Providers : <<q, a, other>> \in billed' => other = s
  <2>1. CASE <<q, a, s>> \in billed
    <3>1. /\ a <= attempt[q] /\ pc[q] # "idle" /\ (pc[q] = "asking" => a < attempt[q])
          /\ \A other \in Providers : <<q, a, other>> \in billed => other = s
      BY <2>1 DEF BillsOf
    <3>2. ASSUME NEW other \in Providers, <<q, a, other>> = Call(p) PROVE FALSE
      BY <3>1, <3>2 DEF Call, TypeOK
    <3> QED
      BY <3>1, <3>2
  <2>2. CASE <<q, a, s>> \notin billed
    <3>1. q = p /\ a = attempt[p] /\ s = provider[p] /\ billed' # billed
      BY <1>3, <2>2 DEF Call
    <3>2. \A other \in Providers : <<p, a, other>> \notin billed
      BY <3>1 DEF BillsOf, TypeOK
    <3>3. attempt[p] \in {1, 2}
      BY DEF TypeOK
    <3> QED
      BY <3>1, <3>2, <3>3 DEF Call
  <2> QED
    BY <2>1, <2>2
<1>4. \A q \in Passes : attempt'[q] = 2 => reprompt' /\ pc'[q] # "idle"
  BY DEF BillsOf
<1> QED
  BY <1>2, <1>3, <1>4 DEF BillsOf

\* What a pass does to the stages and the charges before its answer is in hand.
LEMMA AskingKeeps ==
    ASSUME PassesInv, judge \in {"classify", "gather"}, NEW p \in Passes,
           Answered(p) \/ FallsBack(p) \/ Fails(p),
           UNCHANGED <<judge, result, reprompt, cancelled>>
    PROVE  PassesInv'
<1> USE DEF PassesInv
<1>1. /\ pc[p] = "asking" /\ UNCHANGED <<attempt, charged, uncharged>>
      /\ billed' = billed \/ billed' = billed \cup {Call(p)}
      /\ billed' # billed => pc'[p] # "asking"
      /\ pc' \in [Passes -> {"idle", "asking", "charging", "stopped"}]
      /\ outcome' \in [Passes -> {"none", "ok", "cancelled"} \cup Errors]
      /\ provider' \in [Passes -> Providers]
      /\ \A q \in Passes \ {p} : pc'[q] = pc[q] /\ outcome'[q] = outcome[q]
      /\ \/ pc'[p] \in {"asking", "charging"} /\ outcome'[p] = "none"
         \/ pc'[p] = "stopped" /\ outcome'[p] = "unavailable"
  <2>1. pc[p] = "asking" => outcome[p] = "none"
    BY DEF StagesOf
  <2>2. CASE Answered(p)
    BY <2>1, <2>2 DEF TypeOK, Answered
  <2>3. CASE FallsBack(p)
    BY <2>1, <2>3 DEF TypeOK, FallsBack, FallbackEligible, MayBeBilled, Providers
  <2>4. CASE Fails(p)
    BY <2>1, <2>4 DEF TypeOK, Fails, Stop, Perhaps, Errors
  <2> QED
    BY <2>2, <2>3, <2>4
<1>2. BillsOf' /\ billed' \subseteq Passes \X {1, 2} \X Providers
  BY <1>1, BillOnce
<1>3. TypeOK'
  BY <1>1, <1>2 DEF TypeOK
<1>4. StagesOf'
  BY <1>1 DEF StagesOf, Running, Passes, Pair
<1>5. ResultsOf'
  BY <1>1 DEF ResultsOf, Errors
<1>6. ChargesOf'
  BY <1>1 DEF ChargesOf, Running
<1> QED
  BY <1>2, <1>3, <1>4, <1>5, <1>6

\* The charge, carried out or not, and the parse: the pass ends, or asks again
\* for an answer that nobody has billed.
LEMMA ChargedKeeps ==
    ASSUME PassesInv, judge \in {"classify", "gather"}, NEW p \in Passes, Charged(p),
           UNCHANGED <<judge, result, reprompt, cancelled>>
    PROVE  PassesInv'
<1> USE DEF PassesInv
<1>1. /\ pc[p] = "charging" /\ outcome[p] = "none" /\ UNCHANGED billed
      /\ \/ charged' = charged \cup {<<p, attempt[p]>>} /\ uncharged' = uncharged
         \/ uncharged' = TRUE /\ charged' = charged
  BY DEF Charged, Meter, StagesOf
<1>2. /\ pc' \in [Passes -> {"idle", "asking", "charging", "stopped"}]
      /\ outcome' \in [Passes -> {"none", "ok", "cancelled"} \cup Errors]
      /\ provider' \in [Passes -> Providers] /\ attempt' \in [Passes -> {1, 2}]
      /\ \A q \in Passes \ {p} :
            pc'[q] = pc[q] /\ outcome'[q] = outcome[q] /\ attempt'[q] = attempt[q]
      /\ \/ /\ pc'[p] = "stopped" /\ outcome'[p] \in {"ok", "malformed"}
            /\ attempt'[p] = attempt[p]
         \/ /\ pc'[p] = "asking" /\ outcome'[p] = "none" /\ reprompt
            /\ attempt[p] = 1 /\ attempt'[p] = 2
  <2>1. CASE UNCHANGED <<attempt, provider>> /\ (Stop(p, "ok") \/ Stop(p, "malformed"))
    BY <2>1 DEF TypeOK, Stop, Errors
  <2>2. CASE /\ MayReprompt(p) /\ UNCHANGED outcome
             /\ pc' = [pc EXCEPT ![p] = "asking"]
             /\ attempt' = [attempt EXCEPT ![p] = 2]
             /\ provider' = [provider EXCEPT ![p] = "primary"]
    BY <1>1, <2>2 DEF TypeOK, MayReprompt, Providers
  <2> QED
    BY <2>1, <2>2 DEF Charged, Parse
<1>a. attempt[p] \in {1, 2} /\ attempt \in [Passes -> {1, 2}] /\ Running(p)
  BY <1>1 DEF TypeOK, Running
<1>3. TypeOK'
  <2>1. charged' \subseteq Passes \X {1, 2}
    BY <1>1, <1>a DEF TypeOK
  <2>2. uncharged' \in BOOLEAN
    BY <1>1, Zenon DEF TypeOK
  <2> QED
    BY <1>1, <1>2, <2>1, <2>2 DEF TypeOK
<1>4. StagesOf'
  BY <1>1, <1>2 DEF StagesOf, Running, Passes, Pair
<1>5. ResultsOf'
  BY <1>1, <1>2 DEF ResultsOf, Errors
<1>6. BillsOf'
  BY <1>1, <1>2 DEF BillsOf, TypeOK
<1>7. ChargesOf'
  <2>1. ASSUME NEW q \in Passes \ {p}, NEW a \in {1, 2}
        PROVE  <<q, a>> \in charged' <=> <<q, a>> \in charged
    BY <1>1, <2>1
  <2>2. ASSUME NEW a \in {1, 2}, a < attempt[p]
        PROVE  /\ <<p, a>> \in charged' <=> <<p, a>> \in charged
               /\ ~uncharged' => <<p, a>> \in charged'
    <3>1. /\ <<p, a>> \in charged' <=> <<p, a>> \in charged
          /\ charged \subseteq charged' /\ pc[p] # "idle"
      BY <1>1, <1>a, <2>2
    <3>2. ~uncharged => <<p, a>> \in charged
      BY <2>2, <3>1 DEF ChargesOf
    <3>3. ~uncharged' => ~uncharged
      BY <1>1, Zenon
    <3> QED
      BY <3>1, <3>2, <3>3, Zenon
  <2>3. ~uncharged' => ~uncharged /\ <<p, attempt[p]>> \in charged'
    BY <1>1
  <2>4. ASSUME NEW a \in {1, 2}, a > attempt[p] PROVE <<p, a>> \notin charged'
    <3>1. <<p, a>> \notin charged
      <4>1. <<p, a>> \in charged => a <= attempt[p]
        BY DEF ChargesOf
      <4> QED
        BY <1>a, <2>4, <4>1
    <3>2. <<p, a>> # <<p, attempt[p]>>
      BY <1>a, <2>4
    <3> QED
      BY <1>1, <3>1, <3>2
  <2>5. ASSUME NEW a \in {1, 2}
        PROVE  /\ <<p, a>> \in charged' =>
                     a <= attempt'[p] /\ pc'[p] # "idle" /\ (Running(p)' => a < attempt'[p])
               /\ ~uncharged' /\ pc'[p] # "idle" /\ a < attempt'[p] => <<p, a>> \in charged'
               /\ ~uncharged' /\ outcome'[p] = "ok" /\ a = attempt'[p] => <<p, a>> \in charged'
    BY <1>2, <1>a, <2>2, <2>3, <2>4 DEF Running
  <2>6. ASSUME NEW q \in Passes \ {p}, NEW a \in {1, 2}
        PROVE  /\ <<q, a>> \in charged' =>
                     a <= attempt'[q] /\ pc'[q] # "idle" /\ (Running(q)' => a < attempt'[q])
               /\ ~uncharged' /\ pc'[q] # "idle" /\ a < attempt'[q] => <<q, a>> \in charged'
               /\ ~uncharged' /\ outcome'[q] = "ok" /\ a = attempt'[q] => <<q, a>> \in charged'
    BY <1>2, <2>1, <2>3 DEF Running, ChargesOf
  <2> QED
    BY <2>5, <2>6 DEF ChargesOf
<1> QED
  BY <1>3, <1>4, <1>5, <1>6, <1>7

\* A cancelled pass, alone or as a sibling: the call it awaited may be billed,
\* and the charge it awaited may be carried out.
LEMMA CancelledKeeps ==
    ASSUME TypeOK, BillsOf, ChargesOf, NEW p \in Passes, Cancelled(p), Stop(p, "cancelled"),
           UNCHANGED <<attempt, provider, reprompt, uncharged>>
    PROVE  /\ BillsOf' /\ ChargesOf' /\ Running(p)
           /\ billed' \subseteq Passes \X {1, 2} \X Providers
           /\ charged' \subseteq Passes \X {1, 2}
           /\ pc' \in [Passes -> {"idle", "asking", "charging", "stopped"}]
           /\ outcome' \in [Passes -> {"none", "ok", "cancelled"} \cup Errors]
           /\ pc'[p] = "stopped" /\ outcome'[p] = "cancelled"
           /\ \A q \in Passes \ {p} : pc'[q] = pc[q] /\ outcome'[q] = outcome[q]
<1>1. /\ pc' \in [Passes -> {"idle", "asking", "charging", "stopped"}]
      /\ outcome' \in [Passes -> {"none", "ok", "cancelled"} \cup Errors]
      /\ pc'[p] = "stopped" /\ outcome'[p] = "cancelled"
      /\ \A q \in Passes \ {p} : pc'[q] = pc[q] /\ outcome'[q] = outcome[q]
  BY DEF Stop, TypeOK
<1>2. CASE pc[p] = "asking" /\ Perhaps(p) /\ UNCHANGED charged
  <2>1. BillsOf' /\ billed' \subseteq Passes \X {1, 2} \X Providers
    BY <1>1, <1>2, BillOnce DEF Perhaps
  <2>2. ChargesOf'
    BY <1>1, <1>2 DEF ChargesOf, Running
  <2> QED
    BY <1>1, <1>2, <2>1, <2>2 DEF TypeOK, Running
<1>3. CASE /\ pc[p] = "charging" /\ UNCHANGED billed
           /\ charged' = charged \/ charged' = charged \cup {<<p, attempt[p]>>}
  <2>1. BillsOf'
    BY <1>1, <1>3 DEF BillsOf, TypeOK
  <2>2. attempt[p] \in {1, 2} /\ Running(p)
    BY <1>3 DEF TypeOK, Running
  <2>3. ASSUME NEW q \in Passes, NEW a \in {1, 2}
        PROVE  /\ <<q, a>> \in charged => <<q, a>> \in charged'
               /\ <<q, a>> \in charged' => <<q, a>> \in charged \/ (q = p /\ a = attempt[p])
    BY <1>3
  <2>4. ASSUME NEW q \in Passes, NEW a \in {1, 2}
        PROVE  /\ <<q, a>> \in charged' =>
                     a <= attempt[q] /\ pc'[q] # "idle" /\ (Running(q)' => a < attempt[q])
               /\ ~uncharged /\ pc'[q] # "idle" /\ a < attempt[q] => <<q, a>> \in charged'
               /\ ~uncharged /\ outcome'[q] = "ok" /\ a = attempt[q] => <<q, a>> \in charged'
    <3>1. /\ <<q, a>> \in charged =>
               a <= attempt[q] /\ pc[q] # "idle" /\ (Running(q) => a < attempt[q])
          /\ ~uncharged /\ pc[q] # "idle" /\ a < attempt[q] => <<q, a>> \in charged
          /\ ~uncharged /\ outcome[q] = "ok" /\ a = attempt[q] => <<q, a>> \in charged
      BY DEF ChargesOf
    <3>2. CASE q = p
      <4>1. /\ pc[q] = "charging" /\ pc'[q] = "stopped" /\ outcome'[q] = "cancelled"
            /\ attempt[q] \in {1, 2}
        BY <1>1, <1>3, <2>2, <3>2
      <4>2. <<q, a>> \in charged' => a <= attempt[q]
        <5>1. CASE <<q, a>> \in charged
          BY <5>1, ChargedUpTo
        <5>2. CASE q = p /\ a = attempt[p]
          BY <4>1, <5>2
        <5> QED
          BY <2>3, <5>1, <5>2
      <4>3. ~uncharged /\ a < attempt[q] => <<q, a>> \in charged'
        BY <2>3, <3>1, <4>1
      <4> QED
        BY <4>1, <4>2, <4>3 DEF Running
    <3>3. CASE q # p
      BY <1>1, <2>3, <3>1, <3>3 DEF Running
    <3> QED
      BY <3>2, <3>3
  <2>6. ChargesOf'
    BY <2>4 DEF ChargesOf
  <2>5. charged' \subseteq Passes \X {1, 2}
    BY <1>3, <2>2 DEF TypeOK
  <2> QED
    BY <1>1, <1>3, <2>1, <2>2, <2>6, <2>5 DEF TypeOK
<1> QED
  BY <1>2, <1>3 DEF Cancelled, Meter

\* The classifier's answer lets the pair start, with nothing billed or charged.
LEMMA ClassifiedKeeps == ASSUME PassesInv, Classified PROVE PassesInv'
<1> USE DEF PassesInv
<1>1. /\ judge = "classify" /\ outcome["classify"] = "ok" /\ result = "none" /\ ~cancelled
      /\ \A p \in Pair : pc[p] = "idle" /\ outcome[p] = "none"
      /\ UNCHANGED <<reprompt, attempt, provider, outcome, billed, charged, uncharged, cancelled>>
  BY DEF Classified, StagesOf, ResultsOf, Passes, Pair
<1>2. CASE Finish("suppressed") /\ UNCHANGED pc
  <2>1. TypeOK' /\ BillsOf' /\ ChargesOf'
    BY <1>1, <1>2 DEF Finish, TypeOK, BillsOf, ChargesOf, Running
  <2>2. StagesOf'
    BY <1>1, <1>2 DEF Finish, StagesOf, Running, Passes, Pair
  <2>3. ResultsOf'
    BY <1>1, <1>2 DEF Finish, ResultsOf, Errors
  <2> QED
    BY <2>1, <2>2, <2>3
<1>3. CASE /\ judge' = "gather" /\ UNCHANGED result
           /\ pc' = [p \in Passes |-> IF p \in Pair THEN "asking" ELSE pc[p]]
  <2>1. /\ pc' \in [Passes -> {"idle", "asking", "charging", "stopped"}]
        /\ \A p \in Pair : p \in Passes /\ p # "classify" /\ pc'[p] = "asking" /\ attempt[p] = 1
        /\ \A p \in Passes : p \in Pair \/ (p = "classify" /\ pc'[p] = pc[p])
    BY <1>1, <1>3 DEF TypeOK, BillsOf, Passes, Pair
  <2>2. TypeOK'
    BY <1>1, <1>3, <2>1 DEF TypeOK
  <2>3. StagesOf'
    BY <1>1, <1>3, <2>1 DEF StagesOf, Running
  <2>4. ResultsOf'
    BY <1>1, <1>3 DEF ResultsOf, Errors
  <2>5. BillsOf'
    BY <1>1, <2>1 DEF BillsOf
  <2>6. ChargesOf'
    <3>1. ASSUME NEW p \in Pair, NEW a \in {1, 2}
          PROVE  <<p, a>> \notin charged /\ ~(a < attempt[p]) /\ outcome[p] = "none"
      <4>1. p \in Passes /\ pc[p] = "idle" /\ outcome[p] = "none" /\ attempt[p] = 1
        BY <1>1, <2>1
      <4>2. <<p, a>> \notin charged
        BY <4>1, ChargedUpTo
      <4> QED
        BY <4>1, <4>2
    <3>2. ASSUME NEW p \in Passes \ Pair, NEW a \in {1, 2}
          PROVE  pc'[p] = pc[p]
      BY <2>1
    <3>3. UNCHANGED <<attempt, outcome, charged, uncharged>>
      BY <1>1
    <3>4. ASSUME NEW p \in Pair, NEW a \in {1, 2}
          PROVE  /\ <<p, a>> \notin charged' /\ ~(a < attempt'[p]) /\ outcome'[p] # "ok"
      BY <3>1, <3>3
    <3>5. ASSUME NEW p \in Passes \ Pair, NEW a \in {1, 2}
          PROVE  /\ <<p, a>> \in charged' =>
                       a <= attempt'[p] /\ pc'[p] # "idle" /\ (Running(p)' => a < attempt'[p])
                 /\ ~uncharged' /\ pc'[p] # "idle" /\ a < attempt'[p] => <<p, a>> \in charged'
                 /\ ~uncharged' /\ outcome'[p] = "ok" /\ a = attempt'[p] => <<p, a>> \in charged'
      BY <3>2, <3>3 DEF ChargesOf, Running
    <3> QED
      BY <3>4, <3>5, Zenon DEF ChargesOf
  <2> QED
    BY <2>2, <2>3, <2>4, <2>5, <2>6
<1> QED
  BY <1>2, <1>3 DEF Classified

\* The steps of the judgement itself leave its passes, bills and charges alone.
LEMMA JudgeKeeps ==
    ASSUME PassesInv, ClassifyFailed \/ BothAnswered \/ OneFailed \/ Drained
    PROVE  PassesInv'
<1> USE DEF PassesInv
<1>1. UNCHANGED <<reprompt, calls, cancelled>>
  BY DEF ClassifyFailed, BothAnswered, OneFailed, Drained
<1>2. BillsOf' /\ ChargesOf'
  BY <1>1 DEF calls, BillsOf, ChargesOf, Running
<1>3. judge' \in {"drain", "done"} /\ result' \in {"judged", "cancelled"} \cup Errors
  <2>1. OneFailed => result' \in Errors
    BY DEF OneFailed, SomeFailed, FirstException, Pair
  <2> QED
    BY <2>1 DEF ClassifyFailed, BothAnswered, OneFailed, Drained, Finish, ResultsOf
<1>4. TypeOK'
  BY <1>1, <1>3 DEF calls, TypeOK
<1>5. StagesOf'
  <2>1. CASE ClassifyFailed
    BY <1>1, <2>1 DEF ClassifyFailed, Finish, calls, StagesOf, Running, Errors, Passes, Pair
  <2>2. CASE BothAnswered
    BY <1>1, <2>2 DEF BothAnswered, Finish, calls, StagesOf, Running, Passes, Pair
  <2>3. CASE OneFailed
    BY <1>1, <2>3 DEF OneFailed, calls, StagesOf, Running
  <2>4. CASE Drained
    BY <1>1, <2>4 DEF Drained, AllStopped, Finish, calls, StagesOf, Running, Passes, Pair
  <2> QED
    BY <2>1, <2>2, <2>3, <2>4
<1>6. ResultsOf'
  <2>1. CASE ClassifyFailed
    BY <1>1, <2>1 DEF ClassifyFailed, Finish, calls, ResultsOf, Errors, Passes
  <2>2. CASE BothAnswered
    BY <1>1, <2>2 DEF BothAnswered, Finish, calls, ResultsOf, StagesOf, Errors, Passes
  <2>3. CASE OneFailed
    BY <1>1, <2>3 DEF OneFailed, SomeFailed, FirstException, calls, ResultsOf, Errors, Passes, Pair
  <2>4. CASE Drained
    BY <1>1, <2>4 DEF Drained, Finish, calls, ResultsOf, Errors
  <2> QED
    BY <2>1, <2>2, <2>3, <2>4
<1> QED
  BY <1>2, <1>4, <1>5, <1>6

\* A cancelled sibling stops, and what the judgement will say stays as it was.
LEMMA SiblingKeeps == ASSUME PassesInv, NEW p \in Passes, StopSibling(p) PROVE PassesInv'
<1> USE DEF PassesInv
<1>1. /\ judge = "drain" /\ p \in Pair /\ Cancelled(p) /\ Stop(p, "cancelled")
      /\ UNCHANGED <<judge, result, reprompt, attempt, provider, uncharged, cancelled>>
  BY DEF StopSibling
<1>2. /\ BillsOf' /\ ChargesOf' /\ Running(p)
      /\ billed' \subseteq Passes \X {1, 2} \X Providers
      /\ charged' \subseteq Passes \X {1, 2}
      /\ pc' \in [Passes -> {"idle", "asking", "charging", "stopped"}]
      /\ outcome' \in [Passes -> {"none", "ok", "cancelled"} \cup Errors]
      /\ pc'[p] = "stopped" /\ outcome'[p] = "cancelled"
      /\ \A q \in Passes \ {p} : pc'[q] = pc[q] /\ outcome'[q] = outcome[q]
  BY <1>1, CancelledKeeps
<1>3. TypeOK'
  BY <1>1, <1>2 DEF TypeOK
<1>4. StagesOf'
  BY <1>1, <1>2 DEF StagesOf, Running, Passes, Pair
<1>5. ResultsOf'
  <2>1. outcome[p] = "none" /\ result \in {"cancelled"} \cup Errors
    BY <1>1, <1>2 DEF Running, StagesOf, ResultsOf
  <2>2. result \in Errors => \E q \in Passes : outcome'[q] = result
    <3>1. ASSUME NEW q \in Passes, outcome[q] = result, result \in Errors PROVE q # p
      BY <2>1, <3>1 DEF Errors
    <3> QED
      BY <1>2, <3>1 DEF ResultsOf
  <2> QED
    BY <1>1, <2>1, <2>2 DEF ResultsOf, Errors
<1> QED
  BY <1>2, <1>3, <1>4, <1>5

\* The judgement's own task is cancelled, before, beside or behind its passes.
LEMMA CancelKeeps == ASSUME PassesInv, CancelJudgement PROVE PassesInv'
<1> USE DEF PassesInv
<1>1. cancelled' = TRUE /\ UNCHANGED <<reprompt, attempt, provider, uncharged>>
  BY DEF CancelJudgement
<1>2. CASE /\ judge = "classify" /\ outcome["classify"] = "none" /\ Cancelled("classify")
           /\ Stop("classify", "cancelled") /\ Finish("cancelled")
  <2>0. "classify" \in Passes
    BY DEF Passes
  <2>1. /\ BillsOf' /\ ChargesOf'
        /\ billed' \subseteq Passes \X {1, 2} \X Providers
        /\ charged' \subseteq Passes \X {1, 2}
        /\ pc' \in [Passes -> {"idle", "asking", "charging", "stopped"}]
        /\ outcome' \in [Passes -> {"none", "ok", "cancelled"} \cup Errors]
        /\ pc'["classify"] = "stopped" /\ outcome'["classify"] = "cancelled"
        /\ \A q \in Passes \ {"classify"} : pc'[q] = pc[q] /\ outcome'[q] = outcome[q]
    BY <1>1, <1>2, <2>0, CancelledKeeps
  <2>2. TypeOK'
    BY <1>1, <1>2, <2>1 DEF TypeOK, Finish
  <2>3. StagesOf'
    BY <1>1, <1>2, <2>1 DEF StagesOf, Finish, Running, Passes, Pair
  <2>4. ResultsOf'
    BY <1>1, <1>2, <2>1 DEF ResultsOf, Finish, Errors
  <2> QED
    BY <2>1, <2>2, <2>3, <2>4
<1>3. CASE /\ judge \in {"gather", "drain"} /\ judge' = "drain" /\ result' = "cancelled"
           /\ UNCHANGED <<pc, outcome, billed, charged>>
  <2>1. TypeOK' /\ StagesOf'
    BY <1>1, <1>3 DEF TypeOK, StagesOf, Running
  <2>2. ResultsOf' /\ BillsOf' /\ ChargesOf'
    BY <1>1, <1>3 DEF ResultsOf, BillsOf, ChargesOf, Running, Errors
  <2> QED
    BY <2>1, <2>2
<1> QED
  BY <1>2, <1>3 DEF CancelJudgement, CancelWhileDraining

LEMMA NextPassesInv == PassesInv /\ [Next]_vars => PassesInv'
<1> SUFFICES ASSUME PassesInv, [Next]_vars PROVE PassesInv'
  OBVIOUS
<1>1. ASSUME NEW p \in Passes, judge \in {"classify", "gather"}, Step(p) PROVE PassesInv'
  BY <1>1, AskingKeeps, ChargedKeeps DEF Step
<1>2. CASE UNCHANGED vars
  BY <1>2 DEF vars, calls, PassesInv, TypeOK, StagesOf, ResultsOf, BillsOf, ChargesOf, Running
<1> QED
  BY <1>1, <1>2, ClassifiedKeeps, JudgeKeeps, SiblingKeeps, CancelKeeps DEF Next

LEMMA SpecPassesInv == Spec => []PassesInv
BY InitPassesInv, NextPassesInv, PTL DEF Spec

-----------------------------------------------------------------------------
(* What holds of every behaviour *)

\* No pass is left running when the judgement is over, however it ended.
THEOREM PassesNothingLeftRunning == Spec => []NothingLeftRunning
<1>1. PassesInv => NothingLeftRunning
  BY DEF PassesInv, StagesOf, NothingLeftRunning
<1> QED
  BY <1>1, SpecPassesInv, PTL

\* With or without a fallback, no answer is paid for twice, and a judgement
\* charges one count per answer.
THEOREM PassesSpendBounded == Spec => []SpendBounded
<1>1. ASSUME PassesInv PROVE SpendBounded
  <2> USE <1>1 DEF PassesInv
  <2>1. ASSUME NEW p \in Passes, NEW a \in {1, 2}
        PROVE  Cardinality({q \in Providers : <<p, a, q>> \in billed}) <= 1
    <3> DEFINE payers == {q \in Providers : <<p, a, q>> \in billed}
    <3>1. \A q, other \in payers : q = other
      BY DEF BillsOf
    <3> HIDE DEF payers
    <3>2. ASSUME payers = {} PROVE Cardinality(payers) <= 1
      BY <3>2, FS_EmptySet
    <3>3. ASSUME payers # {} PROVE Cardinality(payers) <= 1
      <4>1. PICK q : payers = {q}
        BY <3>1, <3>3
      <4> QED
        BY <4>1, FS_Singleton
    <3>4. Cardinality(payers) <= 1
      BY <3>2, <3>3
    <3> QED
      BY <3>4 DEF payers
  <2>2. ASSUME NEW b \in billed PROVE reprompt \/ b[2] = 1
    <3>1. PICK p \in Passes, a \in {1, 2}, q \in Providers : b = <<p, a, q>>
      BY DEF TypeOK
    <3>2. a <= attempt[p] /\ attempt[p] \in {1, 2} /\ (attempt[p] = 2 => reprompt)
      BY <3>1 DEF BillsOf, TypeOK
    <3> QED
      BY <3>1, <3>2
  <2>3. ASSUME result = "suppressed", NEW b \in billed PROVE b[1] = "classify"
    <3>1. PICK p \in Passes, a \in {1, 2}, q \in Providers : b = <<p, a, q>>
      BY DEF TypeOK
    <3>2. pc[p] # "idle"
      BY <3>1 DEF BillsOf
    <3> QED
      BY <2>3, <3>1, <3>2 DEF ResultsOf, Passes
  <2>4. ASSUME result = "judged", ~uncharged
        PROVE  charged = {answer \in Passes \X {1, 2} : answer[2] <= attempt[answer[1]]}
    <3>1. \A p \in Passes : outcome[p] = "ok" /\ pc[p] = "stopped" /\ attempt[p] \in {1, 2}
      BY <2>4 DEF ResultsOf, StagesOf, TypeOK
    <3>2. ASSUME NEW p \in Passes, NEW a \in {1, 2}
          PROVE  <<p, a>> \in charged <=> a <= attempt[p]
      <4>1. <<p, a>> \in charged => a <= attempt[p]
        BY DEF ChargesOf
      <4>2. a < attempt[p] \/ a = attempt[p] => <<p, a>> \in charged
        BY <2>4, <3>1 DEF ChargesOf
      <4> QED
        BY <3>1, <4>1, <4>2
    <3>3. charged \subseteq Passes \X {1, 2}
      BY DEF TypeOK
    <3>4. ASSUME NEW answer \in Passes \X {1, 2}
          PROVE  answer \in charged <=> answer[2] <= attempt[answer[1]]
      <4>1. PICK p \in Passes, a \in {1, 2} : answer = <<p, a>>
        OBVIOUS
      <4> QED
        BY <3>2, <4>1
    <3> QED
      BY <3>3, <3>4
  <2> QED
    BY <2>1, <2>2, <2>3, <2>4 DEF SpendBounded
<1> QED
  BY <1>1, SpecPassesInv, PTL

\* What the caller gets is what happened: the error of a pass that failed, three
\* valid answers, or its own cancellation.
THEOREM PassesResultFaithful == Spec => []ResultFaithful
<1>1. PassesInv => ResultFaithful
  BY DEF PassesInv, ResultsOf, ResultFaithful
<1> QED
  BY <1>1, SpecPassesInv, PTL
===============================================================================

--------------------------- MODULE ResilienceProofs ---------------------------
(***************************************************************************)
(* How a judgement survives the services it calls, in two parts: the       *)
(* breaker every outgoing call passes, and the two CRM reads with their    *)
(* retries and their deadline.                                             *)
(***************************************************************************)
EXTENDS CircuitBreaker, Fetch, TLAPS

(***************************************************************************)
(* Part one.  Safety of the breaker for any set of callers, any threshold  *)
(* and any window.  The inductive invariant adds to the two safety         *)
(* invariants that the recorded count never runs ahead of the evidence:    *)
(* without it nothing says that the failure which opens a CLOSED breaker   *)
(* is the Threshold-th in a row.                                           *)
(***************************************************************************)

\* The recorded count never runs ahead of the consecutive failures seen.
CountIsEvidence == failures <= evidence

Inv == TypeOK /\ ClosedBelowThreshold /\ ProbeOutstanding /\ CountIsEvidence

\* A saturating increment stays below its bound, and orders as the sum does.
LEMMA BumpBounded ==
    ASSUME NEW b \in Nat, NEW n \in 0..b
    PROVE  /\ Bump(n, b) \in 0..b
           /\ Bump(n, b) >= n
           /\ \A m \in 0..b : m <= n => Bump(m, b) <= Bump(n, b)
  BY DEF Bump

\* The breaker starts inside the invariant.
LEMMA InitInv == Init => Inv
<1> SUFFICES ASSUME Init PROVE Inv
  OBVIOUS
<1>1. healthy \in BOOLEAN
  BY Zenon DEF Init
<1>2. role \in [Callers -> Role]
  BY DEF Init, Role
<1> QED
  BY <1>1, <1>2, CallersAssumption, ThresholdAssumption, OpenSecondsAssumption
  DEF Init, Inv, TypeOK, ClosedBelowThreshold, ProbeOutstanding, CountIsEvidence,
      BreakerState

\* Admitting a call, in any of the three ways, keeps the invariant.
LEMMA AdmitInv ==
    ASSUME Inv, NEW c \in Callers, Admit(c)
    PROVE  Inv'
<1> USE CallersAssumption, ThresholdAssumption, OpenSecondsAssumption
    DEF Inv, TypeOK, ClosedBelowThreshold, ProbeOutstanding, CountIsEvidence,
        BreakerState, Role
<1>1. CASE AdmitClosed(c)
  BY <1>1 DEF AdmitClosed
<1>2. CASE BecomeProbe(c)
  BY <1>2 DEF BecomeProbe
<1> QED
  BY <1>1, <1>2 DEF Admit, AdmitProbe, AdmitTakeover

\* Recording a failure keeps the count in range, and a breaker that is still
\* closed afterwards is still short of its threshold.
LEMMA RecordFailureFacts ==
    ASSUME TypeOK, ClosedBelowThreshold, RecordFailure
    PROVE  /\ failures' \in 0..Threshold
           /\ failures' = failures \/ failures' = Bump(failures, Threshold)
           /\ state' \in {"closed", "open"}
           /\ state' = "closed" => state = "closed" /\ failures' < Threshold
           /\ state = "closed" /\ state' = "open"
                => failures' = Bump(failures, Threshold) /\ failures' = Threshold
           /\ opened_age' \in 0..OpenSeconds
<1> USE ThresholdAssumption, OpenSecondsAssumption
    DEF TypeOK, ClosedBelowThreshold, BreakerState
<1>1. Bump(failures, Threshold) \in 0..Threshold
  BY BumpBounded
<1>2. CASE state = "half_open"
  BY <1>2 DEF RecordFailure, Open
<1>3. CASE state # "half_open"
  BY <1>1, <1>3 DEF RecordFailure, Open
<1> QED
  BY <1>2, <1>3

\* However a call ends, the invariant is kept.
LEMMA EndInv ==
    ASSUME Inv, NEW c \in Callers,
           EndSuccess(c) \/ EndCounted(c) \/ EndUncounted(c) \/ EndOther(c)
    PROVE  Inv'
<1> USE CallersAssumption, ThresholdAssumption, OpenSecondsAssumption
    DEF Inv, TypeOK, BreakerState, Role
<1>1. CASE EndSuccess(c)
  BY <1>1 DEF EndSuccess, End, RecordSuccess, ClosedBelowThreshold,
              ProbeOutstanding, CountIsEvidence
<1>2. CASE EndCounted(c)
  <2>1. RecordFailure /\ End(c) /\ evidence' = Bump(evidence, Threshold)
    BY <1>2 DEF EndCounted
  <2>2. /\ failures' \in 0..Threshold
        /\ failures' = failures \/ failures' = Bump(failures, Threshold)
        /\ state' \in {"closed", "open"}
        /\ state' = "closed" => failures' < Threshold
        /\ opened_age' \in 0..OpenSeconds
    BY <2>1, RecordFailureFacts
  <2>3. evidence' \in 0..Threshold /\ failures' <= evidence'
    <3>1. /\ Bump(evidence, Threshold) \in 0..Threshold
          /\ Bump(evidence, Threshold) >= evidence
          /\ Bump(failures, Threshold) <= Bump(evidence, Threshold)
      BY BumpBounded DEF CountIsEvidence
    <3> QED
      BY <2>1, <2>2, <3>1 DEF CountIsEvidence
  <2> QED
    BY <2>1, <2>2, <2>3 DEF End, ClosedBelowThreshold, ProbeOutstanding, CountIsEvidence
<1>3. CASE EndUncounted(c)
  BY <1>3 DEF EndUncounted, End, ClosedBelowThreshold, ProbeOutstanding, CountIsEvidence
<1>4. CASE EndOther(c)
  BY <1>4 DEF EndOther, End, Open, ClosedBelowThreshold, ProbeOutstanding,
              CountIsEvidence
<1> QED
  BY <1>1, <1>2, <1>3, <1>4

\* Every step keeps the invariant.
LEMMA NextInv == Inv /\ [Next]_vars => Inv'
<1> SUFFICES ASSUME Inv, [Next]_vars PROVE Inv'
  OBVIOUS
<1> USE CallersAssumption, ThresholdAssumption, OpenSecondsAssumption
<1>1. CASE \E c \in Callers : Admit(c)
  BY <1>1, AdmitInv
<1>2. CASE \E c \in Callers : \/ EndSuccess(c) \/ EndCounted(c)
                              \/ EndUncounted(c) \/ EndOther(c)
  BY <1>2, EndInv
<1>3. CASE Reset
  BY <1>3 DEF Reset, Inv, TypeOK, BreakerState, ClosedBelowThreshold,
              ProbeOutstanding, CountIsEvidence
<1>4. CASE Tick
  <2>1. Bump(opened_age, OpenSeconds) \in 0..OpenSeconds
    BY BumpBounded DEF Inv, TypeOK
  <2>2. Bump(probe_age, OpenSeconds) \in 0..OpenSeconds
    BY BumpBounded DEF Inv, TypeOK
  <2> QED
    BY <1>4, <2>1, <2>2 DEF Tick, Inv, TypeOK, ClosedBelowThreshold,
                            ProbeOutstanding, CountIsEvidence
<1>5. CASE StoreHeals
  BY <1>5 DEF StoreHeals, Inv, TypeOK, ClosedBelowThreshold,
              ProbeOutstanding, CountIsEvidence
<1>6. CASE UNCHANGED vars
  BY <1>6 DEF vars, Inv, TypeOK, ClosedBelowThreshold, ProbeOutstanding,
              CountIsEvidence
<1> QED
  BY <1>1, <1>2, <1>3, <1>4, <1>5, <1>6 DEF Next

\* The breaker's whole safety invariant holds in every reachable state.
THEOREM BreakerInvariant == Spec => []Inv
  BY InitInv, NextInv, PTL DEF Spec

\* Type correctness of the breaker, for every value of the constants.
THEOREM BreakerTypeOK == Spec => []TypeOK
<1>1. Inv => TypeOK
  BY DEF Inv
<1> QED
  BY <1>1, BreakerInvariant, PTL

\* A closed breaker is always short of its threshold.
THEOREM BreakerClosedBelowThreshold == Spec => []ClosedBelowThreshold
<1>1. Inv => ClosedBelowThreshold
  BY DEF Inv
<1> QED
  BY <1>1, BreakerInvariant, PTL

\* HALF_OPEN is never without an outstanding probe.
THEOREM BreakerProbeOutstanding == Spec => []ProbeOutstanding
<1>1. Inv => ProbeOutstanding
  BY DEF Inv
<1> QED
  BY <1>1, BreakerInvariant, PTL

\* Only Threshold counted failures in a row open a closed breaker.
THEOREM BreakerOpensOnlyOnEvidence == Spec => OpensOnlyOnEvidence
<1>1. Inv /\ [Next]_vars
        => [state = "closed" /\ state' = "open" => evidence' = Threshold]_vars
  <2> SUFFICES ASSUME Inv, Next, state = "closed", state' = "open"
               PROVE  evidence' = Threshold
    BY DEF vars
  <2> USE ThresholdAssumption DEF Inv
  <2>1. PICK c \in Callers : EndCounted(c)
    BY DEF Next, Admit, AdmitClosed, AdmitProbe, AdmitTakeover, BecomeProbe, EndSuccess,
           RecordSuccess, EndUncounted, EndOther, Reset, Tick, StoreHeals
  <2>2. RecordFailure /\ evidence' = Bump(evidence, Threshold)
    BY <2>1 DEF EndCounted
  <2>3. failures' = Bump(failures, Threshold) /\ failures' = Threshold
    BY <2>2, RecordFailureFacts
  <2>4. /\ Bump(evidence, Threshold) \in 0..Threshold
        /\ Bump(failures, Threshold) <= Bump(evidence, Threshold)
    BY BumpBounded DEF TypeOK, CountIsEvidence
  <2> QED
    BY <2>2, <2>3, <2>4
<1> QED
  BY <1>1, BreakerInvariant, PTL DEF Spec, OpensOnlyOnEvidence


-----------------------------------------------------------------------------
(***************************************************************************)
(* Part two.  The CRM reads for every timing that fits: any call timeout,  *)
(* jitter, Retry-After cap, re-read pause and deadline of which            *)
(* TimesAssumption and FitsAssumption hold.  The argument is one of time:  *)
(* a read that is under way is never overdue, each of the first two is     *)
(* bound to be over before the deadline, and so the clock cannot reach the *)
(* deadline while they are awaited.                                        *)
(***************************************************************************)

\* Which tasks exist in which phase, and that an answer ends everything.
PhasesOf ==
    /\ phase = "start" => now = 0 /\ \A r \in Reads : read[r].pc = "unborn"
    /\ phase = "both" =>
          /\ now < Deadline /\ read["reread"].pc = "unborn"
          /\ \A r \in Started : read[r].pc \in {"call", "sleep", "done"}
    /\ phase = "reread" =>
          /\ Read("lead") /\ Missed("notes")
          /\ read["reread"].pc \in {"call", "sleep", "done"}
    /\ phase \in {"leaving", "ended"} => \A r \in Reads : ~InFlight(read[r])
    /\ outcome = "none" <=> phase \in {"start", "both", "reread"}

\* A task's attempts, and that it is never overdue.
Punctual(t) ==
    /\ t.pc = "unborn" => t.attempt = 0
    /\ t.pc = "call" => t.attempt \in 1..Attempts /\ now <= t.until
    /\ t.pc = "sleep" => t.attempt < Attempts /\ now <= t.until /\ t.until < Deadline
\* What a task of the first two may still need fits before the deadline.
Fits(t) ==
    /\ t.pc = "call" /\ t.attempt = 1 => t.until <= CallTimeout
    /\ t.pc = "sleep" => t.attempt = 1 /\ t.until + CallTimeout < Deadline
    /\ t.pc = "call" /\ t.attempt = 2 => t.until < Deadline

FInv ==
    /\ FetchTypeOK /\ PhasesOf
    /\ \A r \in Reads : Punctual(read[r])
    /\ phase = "both" => \A r \in Started : Fits(read[r])
    /\ LeadErrorWins /\ OutageToldAsOutage

-----------------------------------------------------------------------------
LEMMA Times ==
    /\ Deadline \in Nat \ {0} /\ CallTimeout \in Nat \ {0} /\ RereadDelay \in Nat \ {0}
    /\ Attempts \in 1..2 /\ RetryAfterCap \in Nat /\ RereadMin \in Nat /\ RereadDelay < RereadMin
    /\ CallTimeout < Deadline /\ (Attempts = 2 => 2 * CallTimeout < Deadline)
    /\ \A w \in Jitters \cup 0..RetryAfterCap :
          w \in Nat /\ (Attempts = 2 => 2 * CallTimeout + w < Deadline)
<1>1. /\ Deadline \in Nat \ {0} /\ CallTimeout \in Nat \ {0} /\ RereadDelay \in Nat \ {0}
      /\ Attempts \in 1..2 /\ RetryAfterCap \in Nat /\ RereadMin \in Nat /\ RereadDelay < RereadMin
      /\ Jitters \subseteq Nat
  BY TimesAssumption, FitsAssumption
<1>2. 0 \in Jitters \cup 0..RetryAfterCap
  BY <1>1
<1>3. ASSUME NEW w \in Jitters \cup 0..RetryAfterCap
      PROVE  w \in Nat /\ Attempts * CallTimeout + w < Deadline
  BY <1>1, FitsAssumption
<1>4. CASE Attempts = 1
  BY <1>1, <1>2, <1>3, <1>4
<1>5. CASE Attempts = 2
  BY <1>1, <1>2, <1>3, <1>5
<1> QED
  BY <1>1, <1>4, <1>5

LEMMA InitFInv == FetchInit => FInv
<1> SUFFICES ASSUME FetchInit PROVE FInv
  OBVIOUS
<1>1. Unborn \in Task
  BY Times DEF Unborn, Task
<1>2. FetchTypeOK
  BY <1>1, Times DEF FetchInit, FetchTypeOK, Outcome
<1>3. PhasesOf /\ \A r \in Reads : Punctual(read[r])
  BY DEF FetchInit, PhasesOf, Punctual, Unborn
<1>4. LeadErrorWins /\ OutageToldAsOutage
  BY DEF FetchInit, LeadErrorWins, OutageToldAsOutage
<1> QED
  BY <1>2, <1>3, <1>4 DEF FetchInit, FInv

\* Fails or goes on: one read under way steps and stays within its time.
LEMMA OneRead ==
    ASSUME FInv, NEW r \in Reads, InFlight(read[r]), NEW t \in Task,
           t.pc \in {"call", "sleep", "done"}, read' = [read EXCEPT ![r] = t],
           UNCHANGED <<now, phase, outcome>>, Punctual(t), phase = "both" => Fits(t)
    PROVE  FInv'
<1>1. phase \in {"both", "reread"} /\ outcome = "none"
  <2>1. phase \in {"start", "both", "reread", "leaving", "ended"}
    BY DEF FInv, FetchTypeOK
  <2>2. phase # "start"
    BY DEF FInv, PhasesOf, InFlight
  <2>3. phase \notin {"leaving", "ended"}
    BY DEF FInv, PhasesOf
  <2> QED
    BY <2>1, <2>2, <2>3 DEF FInv, PhasesOf
<1>2. /\ read' \in [Reads -> Task] /\ read'[r] = t
      /\ \A q \in Reads \ {r} : read'[q] = read[q]
  BY DEF FInv, FetchTypeOK
<1>3. FetchTypeOK'
  BY <1>2 DEF FInv, FetchTypeOK
<1>4. phase = "both" => r \in Started
  BY DEF FInv, PhasesOf, InFlight, Reads, Started
<1>5. phase = "reread" => r = "reread"
  BY DEF FInv, PhasesOf, InFlight, Reads, Read, Missed
<1>6. PhasesOf'
  <2>1. CASE phase = "both"
    BY <2>1, <1>1, <1>2, <1>4 DEF FInv, PhasesOf, Reads, Started
  <2>2. CASE phase = "reread"
    BY <2>2, <1>1, <1>2, <1>5 DEF FInv, PhasesOf, Reads, Read, Missed
  <2> QED
    BY <1>1, <2>1, <2>2
<1>7. \A q \in Reads : Punctual(read[q])'
  BY <1>2 DEF FInv, Punctual
<1>8. phase' = "both" => \A q \in Started : Fits(read[q])'
  BY <1>2 DEF FInv, Fits, Started, Reads
<1>9. LeadErrorWins' /\ OutageToldAsOutage'
  BY <1>1 DEF LeadErrorWins, OutageToldAsOutage
<1> QED
  BY <1>3, <1>6, <1>7, <1>8, <1>9 DEF FInv

\* An answer: what is under way is told to stop, and nothing read is forgotten.
LEMMA LeaveFInv ==
    ASSUME FInv, phase \in {"both", "reread"}, NEW told \in Outcome \ {"none"}, Leave(told),
           told # "judgement_deadline_exceeded" /\ Failed("lead")
              => told = Told("lead", read["lead"].result),
           told = "lead_not_found" => read["lead"].result = "not_found",
           told = "judgement_deadline_exceeded" => Read("lead") /\ Missed("notes")
    PROVE  FInv'
<1>1. /\ outcome' = told /\ phase' = "leaving" /\ now' = now
      /\ read' = [r \in Reads |-> IF InFlight(read[r]) THEN [read[r] EXCEPT !.pc = "stopping"]
                                  ELSE read[r]]
  BY DEF Leave
<1>2. ASSUME NEW r \in Reads
      PROVE  /\ read'[r] \in Task /\ ~InFlight(read'[r]) /\ read'[r].result = read[r].result
             /\ read'[r].pc = "done" <=> read[r].pc = "done"
             /\ Punctual(read[r])'
  <2>1. read[r] \in Task /\ Punctual(read[r])
    BY DEF FInv, FetchTypeOK
  <2>2. CASE InFlight(read[r])
    <3>1. read'[r] = [read[r] EXCEPT !.pc = "stopping"]
      BY <1>1, <2>2
    <3>2. /\ read'[r] \in Task /\ read'[r].pc = "stopping" /\ read'[r].result = read[r].result
      BY <2>1, <3>1 DEF Task
    <3> QED
      BY <2>2, <3>2 DEF InFlight, Punctual
  <2>3. CASE ~InFlight(read[r])
    BY <1>1, <2>1, <2>3 DEF InFlight, Punctual
  <2> QED
    BY <2>2, <2>3
<1>3. read' \in [Reads -> Task]
  BY <1>1, <1>2
<1>4. FetchTypeOK'
  BY <1>1, <1>3 DEF FInv, FetchTypeOK
<1>5. PhasesOf'
  BY <1>1, <1>2 DEF PhasesOf
<1>6. LeadErrorWins' /\ OutageToldAsOutage'
  BY <1>1, <1>2 DEF LeadErrorWins, OutageToldAsOutage, Failed, Read, Missed, Reads
<1> QED
  BY <1>1, <1>2, <1>4, <1>5, <1>6 DEF FInv

-----------------------------------------------------------------------------
(* The steps *)

LEMMA StartFInv == ASSUME FInv, StartBoth PROVE FInv'
<1>1. /\ phase = "start" /\ phase' = "both" /\ UNCHANGED <<now, outcome>>
      /\ \/ read' = [r \in Reads |-> IF r \in Started THEN Calling(1) ELSE read[r]]
         \/ read' = [r \in Reads |-> IF r \in Started THEN Ended(read[r], "key_missing")
                                     ELSE read[r]]
  BY DEF StartBoth
<1>2. now = 0 /\ outcome = "none" /\ \A r \in Reads : read[r].pc = "unborn" /\ read[r] \in Task
  BY <1>1 DEF FInv, FetchTypeOK, PhasesOf
<1>3. Calling(1) = [pc |-> "call", attempt |-> 1, until |-> CallTimeout, result |-> "none"]
  BY <1>2, Times DEF Calling
<1>4. Calling(1) \in Task
  BY <1>3, Times DEF Task
<1>5. ASSUME NEW r \in Reads
      PROVE  Ended(read[r], "key_missing") \in Task /\ Ended(read[r], "key_missing").pc = "done"
  BY <1>2 DEF Ended, Task, Failure
<1>6. ASSUME NEW r \in Reads
      PROVE  /\ read'[r] \in Task /\ (r = "reread" => read'[r] = read[r])
             /\ r \in Started => read'[r] = Calling(1) \/ read'[r].pc = "done"
             /\ r \in Started \/ r = "reread"
  BY <1>1, <1>2, <1>4, <1>5 DEF Reads, Started
<1>7. FetchTypeOK'
  BY <1>1, <1>6 DEF FInv, FetchTypeOK
<1>8. PhasesOf'
  BY <1>1, <1>2, <1>3, <1>6, Times DEF PhasesOf, Reads, Started
<1>9. \A r \in Reads : Punctual(read[r])'
  BY <1>1, <1>2, <1>3, <1>6, Times DEF FInv, Punctual
<1>10. \A r \in Started : Fits(read[r])'
  <2>1. ASSUME NEW r \in Started PROVE r \in Reads /\ (read'[r] = Calling(1) \/ read'[r].pc = "done")
    BY <1>6 DEF Started, Reads
  <2>2. ASSUME NEW r \in Started PROVE Fits(read[r])'
    BY <1>3, <2>1, Times DEF Fits
  <2> QED
    BY <2>2
<1>11. LeadErrorWins' /\ OutageToldAsOutage'
  BY <1>1, <1>2 DEF LeadErrorWins, OutageToldAsOutage
<1> QED
  BY <1>7, <1>8, <1>9, <1>10, <1>11 DEF FInv

LEMMA AnswerFInv == ASSUME FInv, NEW r \in Reads, Answer(r) PROVE FInv'
<1>1. PICK result \in Answers(r) \cup {"envelope"} : read' = [read EXCEPT ![r] = Ended(read[r], result)]
  BY DEF Answer
<1>2. read[r] \in Task /\ result \in {"none", "lead"} \cup Page \cup Failure
  BY DEF FInv, FetchTypeOK, Answers, Page, Failure
<1>3. Ended(read[r], result) \in Task /\ Ended(read[r], result).pc = "done"
  BY <1>2 DEF Ended, Task
<1> QED
  BY <1>1, <1>3, OneRead DEF Answer, InFlight, Punctual, Fits

LEMMA FailFInv == ASSUME FInv, NEW r \in Reads, CallFails(r) PROVE FInv'
<1>1. PICK f \in Failure : Fail(r, f)
  BY DEF CallFails
<1>2. PICK ask \in RetryAfters \cup {Unasked} :
         LET waits == {w \in Waits(f, ask) : MayRetry(r) /\ InTime(w)} IN
         \/ \E w \in waits :
               read' = [read EXCEPT ![r] = [read[r] EXCEPT !.pc = "sleep", !.until = now + w]]
         \/ waits = {} /\ read' = [read EXCEPT ![r] = Ended(read[r], f)]
  BY <1>1 DEF Fail
<1>u. read[r].pc = "call" /\ UNCHANGED <<now, phase, outcome>>
  BY <1>1 DEF Fail
<1>t. /\ read[r] \in Task /\ now \in 0..Deadline /\ read[r].attempt \in 1..Attempts
      /\ now <= read[r].until /\ read[r].attempt \in 0..2
  BY <1>u DEF FInv, FetchTypeOK, Punctual, Task
<1>3. CASE read' = [read EXCEPT ![r] = Ended(read[r], f)]
  <2>1. Ended(read[r], f) \in Task /\ Ended(read[r], f).pc = "done"
    BY <1>t DEF Ended, Task
  <2> QED
    BY <1>3, <1>u, <2>1, OneRead DEF InFlight, Punctual, Fits
<1>4. ASSUME NEW w \in Waits(f, ask), MayRetry(r), InTime(w),
             read' = [read EXCEPT ![r] = [read[r] EXCEPT !.pc = "sleep", !.until = now + w]]
      PROVE  FInv'
  <2> DEFINE t == [read[r] EXCEPT !.pc = "sleep", !.until = now + w]
  <2>1. w \in Jitters \cup 0..RetryAfterCap
    <3>1. Unasked = -1 /\ RetryAfters \subseteq Nat
      BY TimesAssumption DEF Unasked
    <3> QED
      BY <3>1, Times DEF Waits
  <2>2. w \in Nat /\ (Attempts = 2 => 2 * CallTimeout + w < Deadline)
    BY <2>1, Times
  <2>3. now + w < Deadline /\ read[r].attempt < Attempts
    BY <1>4 DEF InTime, MayRetry
  <2>4. read[r].attempt = 1 /\ Attempts = 2
    BY <1>t, <2>3, Times
  <2>5. t \in Task /\ t.pc = "sleep" /\ t.until = now + w /\ t.attempt = 1
    <3>1. now + w \in 0..(Deadline + CallTimeout)
      BY <1>t, <2>2, <2>3, Times
    <3>2. t \in Task
      BY <1>t, <3>1 DEF Task
    <3>3. t.pc = "sleep" /\ t.until = now + w /\ t.attempt = read[r].attempt
      BY <1>t DEF Task
    <3> QED
      BY <2>4, <3>2, <3>3
  <2>6. Punctual(t)
    BY <1>t, <2>2, <2>3, <2>4, <2>5 DEF Punctual
  <2>7. phase = "both" => Fits(t)
    <3>1. SUFFICES ASSUME phase = "both" PROVE Fits(t)
      OBVIOUS
    <3>2. r \in Started
      BY <1>u, <3>1 DEF FInv, PhasesOf, Reads, Started
    <3>3. read[r].until <= CallTimeout
      BY <1>u, <2>4, <3>1, <3>2 DEF FInv, Fits
    <3>4. read[r].until \in Int
      BY <1>t, Times DEF Task
    <3>5. now + w + CallTimeout < Deadline
      BY <1>t, <2>2, <2>4, <3>3, <3>4, Times
    <3> QED
      BY <2>5, <3>5 DEF Fits
  <2> HIDE DEF t
  <2>8. read' = [read EXCEPT ![r] = t]
    BY <1>4 DEF t
  <2> QED
    BY <1>u, <2>5, <2>6, <2>7, <2>8, OneRead DEF InFlight
<1> QED
  BY <1>2, <1>3, <1>4

LEMMA WakeFInv == ASSUME FInv, NEW r \in Reads, Wake(r) PROVE FInv'
<1>1. /\ read[r].pc = "sleep" /\ read[r].until <= now /\ UNCHANGED <<now, phase, outcome>>
      /\ read' = [read EXCEPT ![r] = Calling(read[r].attempt + 1)]
  BY DEF Wake
<1>2. /\ read[r].attempt \in 0..2 /\ read[r].until \in Nat /\ now \in 0..Deadline
      /\ read[r].attempt < Attempts /\ now = read[r].until
  BY <1>1, Times DEF FInv, FetchTypeOK, Punctual, Task
<1> DEFINE t == Calling(read[r].attempt + 1)
<1>3. t.pc = "call" /\ t.attempt = read[r].attempt + 1 /\ t.until = now + CallTimeout
  BY DEF Calling
<1>4. t \in Task
  BY <1>2, Times DEF Calling, Task
<1>5. Punctual(t)
  BY <1>2, <1>3, Times DEF Punctual
<1>6. phase = "both" => Fits(t)
  <2>1. SUFFICES ASSUME phase = "both" PROVE Fits(t)
    OBVIOUS
  <2>2. r \in Started
    BY <1>1, <2>1 DEF FInv, PhasesOf, Reads, Started
  <2>3. read[r].attempt = 1 /\ read[r].until + CallTimeout < Deadline
    BY <1>1, <2>1, <2>2 DEF FInv, Fits
  <2> QED
    BY <1>2, <1>3, <2>3, Times DEF Fits
<1> HIDE DEF t
<1>7. read' = [read EXCEPT ![r] = t]
  BY <1>1 DEF t
<1> QED
  BY <1>1, <1>3, <1>4, <1>5, <1>6, <1>7, OneRead DEF InFlight

LEMMA StopFInv == ASSUME FInv, NEW r \in Reads, Stop(r) PROVE FInv'
<1>1. /\ read[r].pc = "stopping" /\ UNCHANGED <<now, phase, outcome>>
      /\ read' = [read EXCEPT ![r].pc = "cancelled"]
  BY DEF Stop
<1>2. read \in [Reads -> Task]
  BY DEF FInv, FetchTypeOK
<1>3. /\ read' \in [Reads -> Task] /\ read'[r].pc = "cancelled" /\ read'[r].result = read[r].result
      /\ \A q \in Reads \ {r} : read'[q] = read[q]
  BY <1>1, <1>2 DEF Task
<1>4. FetchTypeOK'
  BY <1>1, <1>3 DEF FInv, FetchTypeOK
<1>5. phase \in {"reread", "leaving", "ended"} /\ (phase = "reread" => FALSE)
  BY <1>1 DEF FInv, FetchTypeOK, PhasesOf, Reads, Started, Read, Missed
<1>6. PhasesOf'
  BY <1>1, <1>3, <1>5 DEF FInv, PhasesOf, InFlight
<1>7. \A q \in Reads : Punctual(read[q])'
  BY <1>1, <1>3 DEF FInv, Punctual
<1>8. LeadErrorWins' /\ OutageToldAsOutage'
  BY <1>1, <1>3 DEF FInv, LeadErrorWins, OutageToldAsOutage, Failed, Read, Missed, Reads
<1> QED
  BY <1>1, <1>4, <1>5, <1>6, <1>7, <1>8 DEF FInv

\* What a read's failure is told as is an answer, and never the deadline's.
LEMMA ToldFacts ==
    ASSUME NEW r \in Reads, NEW f
    PROVE  /\ Told(r, f) \in Outcome \ {"none", "judgement_deadline_exceeded", "ok"}
           /\ Told(r, f) = "lead_not_found" => r = "lead" /\ f = "not_found"
<1>1. CASE f = "not_found" /\ r = "lead"
  BY <1>1 DEF Told, Outcome
<1>2. CASE f = "rejected" \/ (f = "not_found" /\ r # "lead")
  BY <1>2 DEF Told, Outcome
<1>3. CASE ~(f = "not_found" /\ r = "lead") /\ ~(f = "rejected" \/ (f = "not_found" /\ r # "lead"))
  BY <1>3 DEF Told, Outcome
<1> QED
  BY <1>1, <1>2, <1>3

LEMMA BothFailedFInv == ASSUME FInv, BothFailed PROVE FInv'
<1>1. PICK r \in Started : phase = "both" /\ Raises(r) /\ Leave(Told(r, read[r].result))
  BY DEF BothFailed
<1> DEFINE told == Told(r, read[r].result)
<1>2. /\ told \in Outcome \ {"none", "judgement_deadline_exceeded", "ok"}
      /\ told = "lead_not_found" => r = "lead" /\ read[r].result = "not_found"
  BY ToldFacts DEF Started, Reads
<1>3. Failed("lead") => told = Told("lead", read["lead"].result)
  BY <1>1 DEF Started, Raises, Failed, Read
<1>4. Leave(told)
  BY <1>1
<1> HIDE DEF told
<1> QED
  BY <1>1, <1>2, <1>3, <1>4, LeaveFInv

LEMMA BothReadFInv == ASSUME FInv, BothRead PROVE FInv'
<1>1. phase = "both" /\ Read("lead") /\ ~Failed("lead")
  BY DEF BothRead, Read, Failed
<1>2. ASSUME NEW told \in {"ok", "note_not_found"}, Leave(told) PROVE FInv'
  BY <1>1, <1>2, LeaveFInv DEF Outcome
<1>3. ASSUME Missed("notes"), Deadline - now >= RereadMin, phase' = "reread",
             read' = [read EXCEPT !["reread"] =
                         [read["reread"] EXCEPT !.pc = "sleep", !.until = now + RereadDelay]],
             UNCHANGED <<now, outcome>>
      PROVE  FInv'
  <2> DEFINE t == [read["reread"] EXCEPT !.pc = "sleep", !.until = now + RereadDelay]
  <2>1. /\ now \in 0..Deadline /\ read["reread"] \in Task /\ read["reread"].pc = "unborn"
        /\ read["reread"].attempt = 0 /\ outcome = "none" /\ "reread" \in Reads
    BY <1>1 DEF FInv, FetchTypeOK, PhasesOf, Punctual, Reads
  <2>2. now + RereadDelay < Deadline /\ now + RereadDelay \in 0..(Deadline + CallTimeout)
    BY <1>3, <2>1, Times
  <2>3. t \in Task
    BY <2>1, <2>2 DEF Task
  <2>4. t.pc = "sleep" /\ t.until = now + RereadDelay /\ t.attempt = 0
    BY <2>1 DEF Task
  <2> HIDE DEF t
  <2>5. read' = [read EXCEPT !["reread"] = t]
    BY <1>3 DEF t
  <2>6. /\ read' \in [Reads -> Task] /\ read'["reread"] = t
        /\ \A q \in Reads \ {"reread"} : read'[q] = read[q]
    BY <2>1, <2>3, <2>5 DEF FInv, FetchTypeOK
  <2>7. FetchTypeOK'
    BY <1>3, <2>6 DEF FInv, FetchTypeOK
  <2>8. PhasesOf'
    BY <1>1, <1>3, <2>1, <2>4, <2>6 DEF PhasesOf, Read, Missed, Reads
  <2>9. \A q \in Reads : Punctual(read[q])'
    BY <1>3, <2>1, <2>2, <2>4, <2>6, Times DEF FInv, Punctual
  <2>10. LeadErrorWins' /\ OutageToldAsOutage'
    BY <1>3, <2>1 DEF LeadErrorWins, OutageToldAsOutage
  <2> QED
    BY <1>3, <2>7, <2>8, <2>9, <2>10 DEF FInv
<1> QED
  BY <1>2, <1>3 DEF BothRead

LEMMA RereadFInv == ASSUME FInv, RereadDone PROVE FInv'
<1>1. phase = "reread" /\ ~Failed("lead") /\ Read("lead") /\ Missed("notes")
  BY DEF RereadDone, FInv, PhasesOf, Read, Failed
<1>2. ASSUME NEW told \in Outcome \ {"none", "lead_not_found"}, Leave(told) PROVE FInv'
  BY <1>1, <1>2, LeaveFInv
<1>3. Told("reread", read["reread"].result) \in Outcome \ {"none", "lead_not_found"}
  BY ToldFacts DEF Reads
<1> QED
  BY <1>2, <1>3 DEF RereadDone, Outcome

\* The first two reads are over, or their judgement, before the deadline is.
LEMMA DeadlineFInv == ASSUME FInv, DeadlinePasses PROVE FInv'
<1>1. phase = "reread"
  BY Times DEF DeadlinePasses, FInv, PhasesOf
<1>2. Read("lead") /\ Missed("notes")
  BY <1>1 DEF FInv, PhasesOf
<1> QED
  BY <1>1, <1>2, LeaveFInv DEF DeadlinePasses, Outcome

LEMMA ReturnFInv == ASSUME FInv, Return PROVE FInv'
BY DEF Return, FInv, FetchTypeOK, PhasesOf, Punctual, LeadErrorWins, OutageToldAsOutage, Failed, Read,
       Missed, InFlight

LEMMA TickFInv == ASSUME FInv, FetchTick PROVE FInv'
<1>1. /\ ~Ready /\ now < Deadline /\ now' = now + 1 /\ UNCHANGED <<read, phase, outcome>>
      /\ now \in 0..Deadline
  BY DEF FetchTick, FInv, FetchTypeOK
<1>2. phase \in {"both", "reread"}
  BY <1>1 DEF FInv, FetchTypeOK, Ready
<1>3. ASSUME NEW r \in Reads, InFlight(read[r])
      PROVE  now + 1 <= read[r].until /\ read[r].until \in Nat
  <2>1. ~(read[r].until <= now) /\ read[r].until \in Nat
    BY <1>1, <1>3, Times DEF Ready, FInv, FetchTypeOK, Task
  <2> QED
    BY <1>1, <2>1, Times
<1>4. ASSUME phase = "both" PROVE now + 1 < Deadline
  <2>1. PICK r \in Started : InFlight(read[r])
    <3>1. /\ ~Failed("lead") /\ ~(Read("lead") /\ read["notes"].pc = "done")
          /\ \A q \in Started : read[q].pc \in {"call", "sleep", "done"}
      BY <1>1, <1>4 DEF Ready, FInv, PhasesOf
    <3> QED
      BY <3>1 DEF Failed, Read, InFlight, Started
  <2>2. r \in Reads /\ read[r].until < Deadline
    <3>1. r \in Reads /\ Fits(read[r]) /\ Punctual(read[r]) /\ read[r] \in Task
      BY <1>4, <2>1 DEF FInv, FetchTypeOK, Started, Reads
    <3> QED
      BY <2>1, <3>1, Times DEF Fits, Punctual, InFlight, Task
  <2> QED
    BY <1>1, <1>3, <2>1, <2>2, Times
<1>5. FetchTypeOK'
  BY <1>1, Times DEF FInv, FetchTypeOK
<1>6. PhasesOf'
  BY <1>1, <1>2, <1>4 DEF FInv, PhasesOf, Read, Missed, InFlight
<1>7. ASSUME NEW r \in Reads PROVE Punctual(read[r])'
  BY <1>1, <1>3 DEF FInv, Punctual, InFlight
<1>8. LeadErrorWins' /\ OutageToldAsOutage' /\ (phase' = "both" => \A r \in Started : Fits(read[r])')
  BY <1>1 DEF FInv, LeadErrorWins, OutageToldAsOutage, Failed, Read, Missed, Fits
<1> QED
  BY <1>5, <1>6, <1>7, <1>8 DEF FInv

LEMMA NextFInv == FInv /\ [FetchNext]_fetchVars => FInv'
<1> SUFFICES ASSUME FInv, [FetchNext]_fetchVars PROVE FInv'
  OBVIOUS
<1>1. ASSUME NEW r \in Reads, Answer(r) \/ CallFails(r) \/ Wake(r) \/ Stop(r) PROVE FInv'
  BY <1>1, AnswerFInv, FailFInv, WakeFInv, StopFInv
<1>2. CASE UNCHANGED fetchVars
  BY <1>2 DEF fetchVars, FInv, FetchTypeOK, PhasesOf, Punctual, Fits, LeadErrorWins, OutageToldAsOutage,
              Failed, Read, Missed, InFlight
<1> QED
  BY <1>1, <1>2, StartFInv, BothFailedFInv, BothReadFInv, RereadFInv, ReturnFInv, DeadlineFInv,
     TickFInv DEF FetchNext

-----------------------------------------------------------------------------
(* What holds of every behaviour *)

LEMMA SpecFInv == FetchSpec => []FInv
BY InitFInv, NextFInv, PTL DEF FetchSpec

\* Whenever the lead's read failed, the CRM is told the lead's failure.
THEOREM FetchLeadErrorWins == FetchSpec => []LeadErrorWins
<1>1. FInv => LeadErrorWins
  BY DEF FInv
<1> QED
  BY <1>1, SpecFInv, PTL

\* For every timing that fits, an outage of the CRM is told as an outage: only
\* the re-read can run into the deadline.
THEOREM FetchOutageToldAsOutage == FetchSpec => []OutageToldAsOutage
<1>1. FInv => OutageToldAsOutage
  BY DEF FInv
<1> QED
  BY <1>1, SpecFInv, PTL

\* The deadline finds no read in a pause of the service's own.
THEOREM FetchDeadlineCutsNoWait == FetchSpec => DeadlineCutsNoWait
<1> DEFINE Cuts == now = Deadline /\ outcome' = "judgement_deadline_exceeded" =>
                      \A r \in Reads : read[r].pc # "sleep"
<1>1. FInv /\ [FetchNext]_fetchVars => [Cuts]_fetchVars
  <2> SUFFICES ASSUME FInv, now = Deadline, NEW r \in Reads, read[r].pc = "sleep" PROVE FALSE
    OBVIOUS
  <2>1. read[r].until \in Int /\ now <= read[r].until /\ read[r].until < Deadline
    BY Times DEF FInv, FetchTypeOK, Punctual, Task
  <2> QED
    BY <2>1, Times
<1> QED
  BY <1>1, SpecFInv, PTL DEF FetchSpec, DeadlineCutsNoWait
=============================================================================

---------------------------- MODULE CircuitBreaker ----------------------------
(***************************************************************************)
(* core/breaker.py: one CircuitBreaker object shared by every coroutine of *)
(* one event loop.  `call` is two atomic steps with an await between them: *)
(* _admit, then whatever the awaited factory ended in.  Any number of      *)
(* calls are outstanding at once and may end in any order, in any state of *)
(* the breaker.                                                            *)
(*                                                                         *)
(* Time.  The code compares `now - x` with open_seconds and nothing else,  *)
(* so each stamp is kept as its AGE, saturating at OpenSeconds.            *)
(* _failures is only compared with the threshold, so it saturates there.   *)
(***************************************************************************)
EXTENDS Integers

CONSTANTS Callers,       \* the coroutines that use this breaker
          Lost,          \* callers whose task may never be resumed (guard 2)
          Threshold,     \* failure_threshold
          OpenSeconds,   \* open_seconds, in ticks
          NoCaller       \* no call has been admitted as the probe yet

ASSUME CallersAssumption == Lost \subseteq Callers /\ NoCaller \notin Callers
ASSUME ThresholdAssumption == Threshold \in Nat \ {0}
ASSUME OpenSecondsAssumption == OpenSeconds \in Nat \ {0}

VARIABLES state,         \* _state
          failures,      \* _failures
          opened_age,    \* now - _opened_at
          probe_age,     \* now - _probe_started
          role,          \* what each caller's outstanding call was admitted as
          prober,        \* history: the caller last admitted as the probe
          evidence,      \* history: counted failures since the last success
          healthy,       \* environment: the store answers every call it is sent
          late           \* environment: calls sent before that, which may yet fail

vars == <<state, failures, opened_age, probe_age, role, prober, evidence, healthy, late>>

BreakerState == {"closed", "open", "half_open"}
Role == {"idle", "call", "probe"}

\* One more, saturating at the bound it is compared with.
Bump(n, bound) == IF n < bound THEN n + 1 ELSE bound

TypeOK ==
    /\ state \in BreakerState
    /\ failures \in 0..Threshold
    /\ opened_age \in 0..OpenSeconds
    /\ probe_age \in 0..OpenSeconds
    /\ role \in [Callers -> Role]
    /\ prober \in Callers \cup {NoCaller}
    /\ evidence \in 0..Threshold
    /\ healthy \in BOOLEAN
    /\ late \subseteq Callers

Init ==
    /\ state = "closed"
    /\ failures = 0
    /\ opened_age = OpenSeconds
    /\ probe_age = OpenSeconds
    /\ role = [c \in Callers |-> "idle"]
    /\ prober = NoCaller
    /\ evidence = 0
    /\ healthy = FALSE
    /\ late = {}

-----------------------------------------------------------------------------
(* _admit.  A refusal raises and changes nothing, so it is the absence of  *)
(* this step.                                                              *)

AdmitClosed(c) ==
    /\ state = "closed"
    /\ role' = [role EXCEPT ![c] = "call"]
    /\ UNCHANGED <<state, failures, opened_age, probe_age, prober, evidence, healthy, late>>

\* The arriving call becomes the probe and stamps _probe_started.
BecomeProbe(c) ==
    /\ state' = "half_open"
    /\ probe_age' = 0
    /\ role' = [role EXCEPT ![c] = "probe"]
    /\ prober' = c
    /\ UNCHANGED <<failures, opened_age, evidence, healthy, late>>

\* OPEN and the window has passed: the first arrival is the probe.
AdmitProbe(c) ==
    /\ state = "open"
    /\ opened_age >= OpenSeconds
    /\ BecomeProbe(c)

\* mutant: HALF_OPEN waits for its probe for ever.
AdmitTakeoverNever(c) == FALSE /\ BecomeProbe(c)
\* HALF_OPEN and the probe never came back: this call is the probe now.
AdmitTakeover(c) ==
    /\ state = "half_open"
    /\ probe_age >= OpenSeconds
    /\ BecomeProbe(c)

Admit(c) ==
    /\ role[c] = "idle"
    /\ AdmitClosed(c) \/ AdmitProbe(c) \/ AdmitTakeover(c)

-----------------------------------------------------------------------------
(* How an outstanding call ends.  The code reads self._state when the call *)
(* ends and not what the call was admitted as, so any call that ends while *)
(* the breaker is HALF_OPEN is treated as the probe.                       *)

Open == state' = "open" /\ opened_age' = 0

\* mutant: the threshold is checked before the failure is added.
RecordFailureLate ==
    \/ state = "half_open" /\ Open /\ UNCHANGED failures
    \/ /\ state # "half_open"
       /\ failures' = Bump(failures, Threshold)
       /\ IF failures >= Threshold THEN Open ELSE UNCHANGED <<state, opened_age>>
RecordFailure ==
    \/ state = "half_open" /\ Open /\ UNCHANGED failures
    \/ /\ state # "half_open"
       /\ failures' = Bump(failures, Threshold)
       /\ IF failures' >= Threshold THEN Open ELSE UNCHANGED <<state, opened_age>>

\* mutant: a success takes one failure off the count instead of clearing it.
RecordSuccessDecrement ==
    /\ state' = IF state = "half_open" THEN "closed" ELSE state
    /\ failures' = failures - 1
    /\ UNCHANGED opened_age
RecordSuccess ==
    /\ state' = IF state = "half_open" THEN "closed" ELSE state
    /\ failures' = 0
    /\ UNCHANGED opened_age

End(c) ==
    /\ role[c] # "idle"
    /\ role' = [role EXCEPT ![c] = "idle"]
    /\ late' = late \ {c}
    /\ UNCHANGED <<probe_age, prober, healthy>>

\* A call the healed store was sent succeeds; one it was sent before may time out.
MayFail(c) == ~healthy \/ c \in late

\* factory() returned.
EndSuccess(c) ==
    /\ End(c)
    /\ RecordSuccess
    /\ evidence' = 0

\* factory() raised something `counts` accepts: evidence the store is down.
EndCounted(c) ==
    /\ MayFail(c)
    /\ End(c)
    /\ RecordFailure
    /\ evidence' = Bump(evidence, Threshold)

\* mutant: our own pool running out is counted like a store failure.
EndUncountedAsFailure(c) ==
    /\ MayFail(c) /\ End(c) /\ RecordFailure /\ UNCHANGED evidence
\* factory() raised PoolExhausted: the store was never asked.  The probe
\* slot goes back with _opened_at untouched.
EndUncounted(c) ==
    /\ MayFail(c)
    /\ End(c)
    /\ state' = IF state = "half_open" THEN "open" ELSE state
    /\ UNCHANGED <<failures, opened_age, evidence>>

\* mutant: a cancelled or crashed call leaves the breaker as it was.
EndOtherIgnored(c) ==
    /\ MayFail(c) /\ End(c) /\ UNCHANGED <<state, failures, opened_age, evidence>>
\* Cancelled, or a bug in our own code: not counted, but a probe that ends
\* this way re-arms the window.
EndOther(c) ==
    /\ MayFail(c)
    /\ End(c)
    /\ IF state = "half_open" THEN Open ELSE UNCHANGED <<state, opened_age>>
    /\ UNCHANGED <<failures, evidence>>

\* reset(): back to closed with no history.
Reset ==
    /\ state' = "closed"
    /\ failures' = 0
    /\ UNCHANGED <<opened_age, probe_age, role, prober, evidence, healthy, late>>

-----------------------------------------------------------------------------
\* One tick of the monotonic clock.
Tick ==
    /\ opened_age' = Bump(opened_age, OpenSeconds)
    /\ probe_age' = Bump(probe_age, OpenSeconds)
    /\ UNCHANGED <<state, failures, role, prober, evidence, healthy, late>>

\* The store comes back for good.
StoreHeals ==
    /\ ~healthy
    /\ healthy' = TRUE
    /\ late' = {c \in Callers : role[c] # "idle"}
    /\ UNCHANGED <<state, failures, opened_age, probe_age, role, prober, evidence>>

Next ==
    \/ \E c \in Callers : \/ Admit(c)
                          \/ EndSuccess(c)
                          \/ EndCounted(c)
                          \/ EndUncounted(c)
                          \/ EndOther(c)
    \/ Reset
    \/ Tick
    \/ StoreHeals

Spec == Init /\ [][Next]_vars

\* The clock advances, requests keep arriving, and a call whose task is
\* resumed ends; a Lost task is promised nothing.
Fairness ==
    /\ WF_vars(Tick)
    /\ \A c \in Callers \ Lost : WF_vars(Admit(c)) /\ WF_vars(EndSuccess(c))

FairSpec == Spec /\ Fairness

-----------------------------------------------------------------------------
(* Safety *)

\* A CLOSED breaker is always short of its threshold: no order of stale
\* results leaves it closed with enough failures recorded to be open.
ClosedBelowThreshold == state = "closed" => failures < Threshold

\* HALF_OPEN is never without a probe on the wire: the last call admitted as
\* the probe is still outstanding, so something can still move the breaker.
ProbeOutstanding == state = "half_open" => prober \in Callers /\ role[prober] = "probe"

\* CLOSED -> OPEN needs Threshold counted failures with no success between
\* them; pool refusals, cancellations and our own bugs never add up to it.
OpensOnlyOnEvidence ==
    [][state = "closed" /\ state' = "open" => evidence' = Threshold]_vars

\* Liveness: once the store answers again the breaker closes, and closes again
\* whenever a call of the outage fails late and re-opens it, even when probes
\* were lost, cancelled or refused by the pool on the way.
ClosesOnceHealthy == healthy ~> state = "closed"

\* What the module docstring says: "then ONE probe decides whether it closes
\* or opens again" -- a step that leaves HALF_OPEN is the end of the probe.
OnlyTheProbeDecides ==
    [][state = "half_open" /\ state' # "half_open"
         => \A c \in Callers : role'[c] # role[c] => c = prober]_vars

=============================================================================

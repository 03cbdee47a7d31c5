----------------------------- MODULE ModelPasses -----------------------------
(***************************************************************************)
(* The paid part of one judgement (pipeline._judge steps 7 and 8): the     *)
(* classify pass, then the vague and score passes side by side under       *)
(* gather_or_cancel.  A pass is llm_call.call_model: one call, its charge, *)
(* and one reprompt when the answer is malformed.  A call is the watchdog  *)
(* around FallbackLLMClient around the adapter's one HTTP request.         *)
(*                                                                         *)
(* Each await of each coroutine is a state of `pc`; a pass ends there by   *)
(* an answer, by a failure or by a cancellation.  The breaker inside the   *)
(* adapter is CircuitBreaker; here it is one more way to be refused.       *)
(***************************************************************************)
EXTENDS Integers, FiniteSets

CONSTANT HasFallback       \* llm_fallback_provider is configured

ASSUME FallbackAssumption == HasFallback \in BOOLEAN

VARIABLES judge,      \* what _judge is awaiting
          result,     \* how the judgement ends
          reprompt,   \* token_preflight left room for reprompts
          pc,         \* what each pass is awaiting
          attempt,    \* first call, or the reprompt
          provider,   \* who the call is sent to
          outcome,    \* how each pass ended
          billed,     \* environment: calls a provider has billed
          charged,    \* calls charged to the token counters
          uncharged, \* history: an answer was not charged
          cancelled   \* history: the judgement's own task was cancelled

calls == <<pc, attempt, provider, outcome, billed, charged, uncharged>>
vars == <<judge, result, reprompt, calls, cancelled>>

Pair == {"vague", "score"}
Passes == {"classify"} \cup Pair
Providers == {"primary", "fallback"}
Errors == {"unavailable", "malformed"}

TypeOK ==
    /\ judge \in {"classify", "gather", "drain", "done"}
    /\ result \in {"none", "judged", "suppressed", "cancelled"} \cup Errors
    /\ reprompt \in BOOLEAN
    /\ pc \in [Passes -> {"idle", "asking", "charging", "stopped"}]
    /\ attempt \in [Passes -> {1, 2}]
    /\ provider \in [Passes -> Providers]
    /\ outcome \in [Passes -> {"none", "ok", "cancelled"} \cup Errors]
    /\ billed \subseteq Passes \X {1, 2} \X Providers
    /\ charged \subseteq Passes \X {1, 2}
    /\ uncharged \in BOOLEAN
    /\ cancelled \in BOOLEAN

Init ==
    /\ judge = "classify"
    /\ result = "none"
    /\ reprompt \in BOOLEAN
    /\ pc = [p \in Passes |-> IF p = "classify" THEN "asking" ELSE "idle"]
    /\ attempt = [p \in Passes |-> 1]
    /\ provider = [p \in Passes |-> "primary"]
    /\ outcome = [p \in Passes |-> "none"]
    /\ billed = {}
    /\ charged = {}
    /\ uncharged = FALSE
    /\ cancelled = FALSE

-----------------------------------------------------------------------------
(* The adapter's failures, and what it says about each. *)

\* The open breaker, the pool and a connect error: nothing was sent.  429 and
\* every other status: refused.  The rest may have been answered and billed: a
\* timeout (HTTP's or the watchdog's), a connection lost while reading, a 5xx
\* of a gateway, a 200 that cannot be read.
Failures == {"breaker_open", "pool", "connect", "status_429", "status_503",
             "status_4xx", "status_5xx", "timeout", "watchdog", "read", "unreadable"}
MayBeBilled == {"status_5xx", "timeout", "watchdog", "read", "unreadable"}

\* mutant: every transient failure goes to the fallback.
FallbackEligibleTransient == Failures \ {"status_4xx", "watchdog"}
\* fallback_eligible: no response body came back.
FallbackEligible == {"breaker_open", "connect", "status_429", "status_503"}

-----------------------------------------------------------------------------
Call(p) == <<p, attempt[p], provider[p]>>
Stop(p, how) ==
    /\ pc' = [pc EXCEPT ![p] = "stopped"]
    /\ outcome' = [outcome EXCEPT ![p] = how]

\* The call may have got as far as the bill, or not.
Perhaps(p) == billed' = billed \/ billed' = billed \cup {Call(p)}

\* A 200 the adapter could read: the charge is next.
Answered(p) ==
    /\ pc[p] = "asking"
    /\ billed' = billed \cup {Call(p)}
    /\ pc' = [pc EXCEPT ![p] = "charging"]
    /\ UNCHANGED <<attempt, provider, outcome, charged, uncharged>>

\* The primary gave no body: the same prompt to the fallback, once.
FallsBack(p) ==
    /\ pc[p] = "asking" /\ HasFallback /\ provider[p] = "primary"
    /\ \E f \in FallbackEligible :
          IF f \in MayBeBilled THEN Perhaps(p) ELSE UNCHANGED billed
    /\ provider' = [provider EXCEPT ![p] = "fallback"]
    /\ UNCHANGED <<pc, attempt, outcome, charged, uncharged>>

\* No retry: every failure left is 503 model_unavailable.
Fails(p) ==
    /\ pc[p] = "asking"
    /\ \E f \in Failures :
          /\ ~(HasFallback /\ provider[p] = "primary" /\ f \in FallbackEligible)
          /\ IF f \in MayBeBilled THEN Perhaps(p) ELSE UNCHANGED billed
    /\ Stop(p, "unavailable")
    /\ UNCHANGED <<attempt, provider, charged, uncharged>>

MayReprompt(p) == attempt[p] = 1 /\ reprompt

\* parse_output on the answer in hand: valid, malformed for good, or malformed
\* with a reprompt left, which is a new call to the primary.
Parse(p) ==
    \/ Stop(p, "ok") /\ UNCHANGED <<attempt, provider>>
    \/ ~MayReprompt(p) /\ Stop(p, "malformed") /\ UNCHANGED <<attempt, provider>>
    \/ /\ MayReprompt(p)
       /\ pc' = [pc EXCEPT ![p] = "asking"]
       /\ attempt' = [attempt EXCEPT ![p] = 2]
       /\ provider' = [provider EXCEPT ![p] = "primary"]
       /\ UNCHANGED outcome

Meter(p) == charged' = charged \cup {<<p, attempt[p]>>}

\* enforce_token_cost answered, or failed open, or the answer reported no usage
\* and was not charged; then the answer is parsed.
Charged(p) ==
    /\ pc[p] = "charging"
    /\ Parse(p)
    /\ \/ Meter(p) /\ UNCHANGED uncharged
       \/ uncharged' = TRUE /\ UNCHANGED charged
    /\ UNCHANGED billed

Step(p) ==
    /\ Answered(p) \/ FallsBack(p) \/ Fails(p) \/ Charged(p)
    /\ UNCHANGED <<judge, result, reprompt, cancelled>>

\* CancelledError at the pass's await: the call may be billed, the charge may
\* still be carried out.
Cancelled(p) ==
    \/ pc[p] = "asking" /\ Perhaps(p) /\ UNCHANGED charged
    \/ pc[p] = "charging" /\ (UNCHANGED charged \/ Meter(p)) /\ UNCHANGED billed

-----------------------------------------------------------------------------
(* _judge and gather_or_cancel. *)

Finish(r) == judge' = "done" /\ result' = r

\* The classifier answered: suppressed, or the pair starts.
Classified ==
    /\ judge = "classify" /\ outcome["classify"] = "ok"
    /\ \/ Finish("suppressed") /\ UNCHANGED pc
       \/ /\ judge' = "gather" /\ UNCHANGED result
          /\ pc' = [p \in Passes |-> IF p \in Pair THEN "asking" ELSE pc[p]]
    /\ UNCHANGED <<reprompt, attempt, provider, outcome, billed, charged, uncharged,
                   cancelled>>

ClassifyFailed ==
    /\ judge = "classify" /\ outcome["classify"] \in Errors
    /\ Finish(outcome["classify"])
    /\ UNCHANGED <<reprompt, calls, cancelled>>

\* mutant: the first argument's outcome is reported.
FirstExceptionFirstTask == outcome["vague"]
\* _first_exception, in argument order.
FirstException == IF outcome["vague"] \in Errors THEN outcome["vague"] ELSE outcome["score"]

\* asyncio.wait returned: both answered, or one failed and the other is told
\* to stop.
BothAnswered ==
    /\ judge = "gather"
    /\ \A p \in Pair : outcome[p] = "ok"
    /\ Finish("judged")
    /\ UNCHANGED <<reprompt, calls, cancelled>>

\* mutant: only the first coroutine's failure is looked for.
SomeFailedFirstOnly == outcome["vague"] \in Errors
SomeFailed == \E p \in Pair : outcome[p] \in Errors

OneFailed ==
    /\ judge = "gather"
    /\ SomeFailed
    /\ judge' = "drain"
    /\ result' = FirstException
    /\ UNCHANGED <<reprompt, calls, cancelled>>

\* A cancelled sibling stops at its await.
StopSibling(p) ==
    /\ judge = "drain" /\ p \in Pair
    /\ Cancelled(p)
    /\ Stop(p, "cancelled")
    /\ UNCHANGED <<judge, result, reprompt, attempt, provider, uncharged, cancelled>>

\* mutant: cancel() without awaiting the cancelled tasks.
AllStoppedAtOnce == TRUE
AllStopped == \A p \in Pair : pc[p] = "stopped"

\* Every sibling has stopped: the first failure, or the cancellation, goes on.
Drained ==
    /\ judge = "drain" /\ AllStopped
    /\ Finish(result)
    /\ UNCHANGED <<reprompt, calls, cancelled>>

\* mutant: the failure already in hand wins over a cancellation of the caller.
CancelWhileDrainingSwallowed == judge = "drain" /\ UNCHANGED <<judge, result>>
\* A second cancellation while the siblings are drained.
CancelWhileDraining == judge = "drain" /\ result' = "cancelled" /\ UNCHANGED judge

\* The deadline, the client or a shutdown cancels the judgement.
CancelJudgement ==
    /\ \/ /\ judge = "classify" /\ outcome["classify"] = "none"
          /\ Cancelled("classify")
          /\ Stop("classify", "cancelled")
          /\ Finish("cancelled")
       \/ /\ judge = "gather"
          /\ judge' = "drain" /\ result' = "cancelled"
          /\ UNCHANGED <<pc, outcome, billed, charged>>
       \/ CancelWhileDraining /\ UNCHANGED <<pc, outcome, billed, charged>>
    /\ cancelled' = TRUE
    /\ UNCHANGED <<reprompt, attempt, provider, uncharged>>

Next ==
    \/ \E p \in Passes : (judge \in {"classify", "gather"} /\ Step(p)) \/ StopSibling(p)
    \/ Classified \/ ClassifyFailed \/ BothAnswered \/ OneFailed \/ Drained
    \/ CancelJudgement

Spec == Init /\ [][Next]_vars

\* The HTTP budget and the watchdog end every call, and the loop resumes every
\* task that is ready; nobody has to cancel.
Fairness ==
    /\ \A p \in Passes : WF_vars(judge # "drain" /\ Step(p)) /\ WF_vars(StopSibling(p))
    /\ WF_vars(Classified \/ ClassifyFailed \/ BothAnswered \/ OneFailed \/ Drained)

FairSpec == Spec /\ Fairness

-----------------------------------------------------------------------------
(* Properties *)

Running(p) == pc[p] \in {"asking", "charging"}

\* Whatever the two passes do and whenever the request is cancelled, no pass is
\* left running when the judgement is over.
NothingLeftRunning == judge = "done" => \A p \in Passes : ~Running(p)

\* What a judgement spends: no answer is paid for twice (the fallback is asked
\* only for a call the primary cannot have billed), a pass asks again only while
\* its budget is not nearly spent, a suppressed note pays for its classifier
\* alone, and a judgement charges one count per answer, the reprompted ones
\* included, unless the store failed a charge or an answer reported no usage.
SpendBounded ==
    /\ \A p \in Passes, a \in {1, 2} :
          Cardinality({q \in Providers : <<p, a, q>> \in billed}) <= 1
    /\ \A b \in billed : reprompt \/ b[2] = 1
    /\ result = "suppressed" => \A b \in billed : b[1] = "classify"
    /\ result = "judged" /\ ~uncharged =>
          charged = {answer \in Passes \X {1, 2} : answer[2] <= attempt[answer[1]]}

\* What the caller gets is what happened: an error is the error of a pass that
\* failed by itself, a judgement rests on three valid answers, and a
\* cancellation of the caller is never turned into anything else.
ResultFaithful ==
    judge = "done" =>
        /\ result \in Errors => \E p \in Passes : outcome[p] = result
        /\ result = "judged" => \A p \in Passes : outcome[p] = "ok"
        /\ result = "cancelled" <=> cancelled

\* Liveness: a judgement whose calls all have a budget ends, whoever fails.
JudgementEnds == <>(judge = "done")

=============================================================================

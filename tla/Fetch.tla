-------------------------------- MODULE Fetch --------------------------------
(***************************************************************************)
(* One judgement's reads of the CRM: the lead and page one of its notes    *)
(* started together, each under the watchdog with at most one retry, the   *)
(* one re-read of a page that misses the note, all inside the judgement's  *)
(* deadline (pipeline._fetch_note, tools/leads.py, core/resilience.py).    *)
(*                                                                         *)
(* The CRM answers what it likes, when it likes or never.  Time is counted *)
(* from the moment the deadline was set.                                   *)
(***************************************************************************)
EXTENDS Integers, FiniteSets

CONSTANTS Deadline,      \* settings.judgement_deadline_seconds
          CallTimeout,   \* settings.external_call_timeout_seconds
          Attempts,      \* 2, or 1 with external_call_retry_once off
          Jitters,       \* RETRY_JITTER_MIN_SECONDS .. RETRY_JITTER_MAX_SECONDS
          RetryAfters,   \* what a 429 may ask for
          RetryAfterCap, \* RETRY_AFTER_CAP_SECONDS
          RereadDelay,   \* NOTE_REREAD_DELAY_SECONDS
          RereadMin      \* NOTE_REREAD_MIN_REMAINING_SECONDS

ASSUME TimesAssumption ==
    /\ {Deadline, CallTimeout, RereadDelay} \subseteq Nat \ {0}
    /\ Attempts \in {1, 2} /\ Jitters \subseteq Nat /\ RetryAfters \subseteq Nat
    /\ RetryAfterCap \in Nat /\ RereadMin \in Nat
\* Both hold of the shipped numbers: two calls of 10 s and a wait of at most 2
\* fit in 25, and a re-read pauses 0.25 s only with 1 s left.
ASSUME FitsAssumption ==
    /\ \A w \in Jitters \cup 0..RetryAfterCap : Attempts * CallTimeout + w < Deadline
    /\ RereadDelay < RereadMin

VARIABLES now,
          read,    \* each read's task
          phase,   \* what _fetch_note is awaiting
          outcome  \* what it answered or raised

fetchVars == <<now, read, phase, outcome>>

Reads == {"lead", "notes", "reread"}
Started == {"lead", "notes"}

\* A page of notes either holds the note or does not: one whose row did not
\* validate was dropped from it.
Page == {"found", "missing"}
Answers(r) == IF r = "lead" THEN {"lead"} ELSE Page
Failure == {"transient",   \* connect error, read timeout, 5xx, the watchdog's timeout
            "throttled",   \* 429
            "not_found", "refused", "rejected",  \* 404; 401 and 403; any other 4xx
            "other",       \* anything else the call raised, a 3xx included
            "envelope",    \* a 2xx of the wrong shape
            "key_missing"} \* no DD-API-KEY for the tenant
Unasked == -1

Task == [pc : {"unborn", "call", "sleep", "done", "stopping", "cancelled"},
         attempt : 0..2, until : 0..(Deadline + CallTimeout),
         result : {"none", "lead"} \cup Page \cup Failure]

Outcome == {"none", "ok", "note_not_found", "lead_not_found", "backend_rejected",
            "backend_unavailable", "judgement_deadline_exceeded"}

FetchTypeOK ==
    /\ now \in 0..Deadline
    /\ read \in [Reads -> Task]
    /\ phase \in {"start", "both", "reread", "leaving", "ended"}
    /\ outcome \in Outcome

Unborn == [pc |-> "unborn", attempt |-> 0, until |-> 0, result |-> "none"]
Calling(n) == [pc |-> "call", attempt |-> n, until |-> now + CallTimeout,
               result |-> "none"]
Ended(t, result) == [t EXCEPT !.pc = "done", !.result = result]

FetchInit ==
    /\ now = 0 /\ phase = "start" /\ outcome = "none"
    /\ read = [r \in Reads |-> Unborn]

-----------------------------------------------------------------------------
\* mutant: a 429 is retried after whatever it asks for.
WaitsUncapped(f, ask) ==
    IF f = "transient" \/ (f = "throttled" /\ ask = Unasked) THEN Jitters
    ELSE IF f = "throttled" THEN {ask} ELSE {}
\* backend_retry_delay: the waits before the one retry; none is no retry.
Waits(f, ask) ==
    IF f = "transient" \/ (f = "throttled" /\ ask = Unasked) THEN Jitters
    ELSE IF f = "throttled" /\ ask <= RetryAfterCap THEN {ask} ELSE {}

\* mutant: the wait is not held against the deadline.
InTimeUnchecked(wait) == TRUE
InTime(wait) == now + wait < Deadline

\* _typed_failure, then _backend_errors: what the CRM is told of a read's failure.
Told(r, f) ==
    CASE f = "not_found" /\ r = "lead" -> "lead_not_found"
      [] f = "rejected" \/ (f = "not_found" /\ r # "lead") -> "backend_rejected"
      [] OTHER -> "backend_unavailable"

-----------------------------------------------------------------------------
(* A read: LeadsClient._get under call_with_watchdog                       *)

\* Both tasks are made together; without a key neither makes a call.
StartBoth ==
    /\ phase = "start" /\ phase' = "both"
    /\ \/ read' = [r \in Reads |-> IF r \in Started THEN Calling(1) ELSE read[r]]
       \/ read' = [r \in Reads |-> IF r \in Started THEN Ended(read[r], "key_missing")
                                   ELSE read[r]]
    /\ UNCHANGED <<now, outcome>>

Answer(r) ==
    /\ read[r].pc = "call"
    /\ \E result \in Answers(r) \cup {"envelope"} :
          read' = [read EXCEPT ![r] = Ended(@, result)]
    /\ UNCHANGED <<now, phase, outcome>>

\* mutant: the attempts are counted one short.
MayRetryOnceMore(r) == read[r].attempt <= Attempts
MayRetry(r) == read[r].attempt < Attempts

\* A failed call is retried after its wait, or ends the read.
Fail(r, f) ==
    /\ read[r].pc = "call"
    /\ \E ask \in RetryAfters \cup {Unasked} :
          LET waits == {w \in Waits(f, ask) : MayRetry(r) /\ InTime(w)} IN
          \/ \E w \in waits :
                read' = [read EXCEPT ![r] = [@ EXCEPT !.pc = "sleep", !.until = now + w]]
          \/ waits = {} /\ read' = [read EXCEPT ![r] = Ended(@, f)]
    /\ UNCHANGED <<now, phase, outcome>>

\* The watchdog's own timeout is one more transient failure: FetchTick lets no call
\* outlive it.
CallFails(r) ==
    \E f \in Failure \ {"envelope", "key_missing"} : Fail(r, f)

Wake(r) ==
    /\ read[r].pc = "sleep" /\ read[r].until <= now
    /\ read' = [read EXCEPT ![r] = Calling(@.attempt + 1)]
    /\ UNCHANGED <<now, phase, outcome>>

\* A cancelled task unwinds.
Stop(r) ==
    /\ read[r].pc = "stopping"
    /\ read' = [read EXCEPT ![r].pc = "cancelled"]
    /\ UNCHANGED <<now, phase, outcome>>

-----------------------------------------------------------------------------
(* _fetch_note                                                             *)

Failed(r) == read[r].pc = "done" /\ read[r].result \in Failure
Read(r) == read[r].pc = "done" /\ read[r].result \notin Failure
InFlight(t) == t.pc \in {"call", "sleep"}

\* _cancel_and_drain: every unfinished task is cancelled, then awaited.
Leave(told) ==
    /\ outcome' = told /\ phase' = "leaving"
    /\ read' = [r \in Reads |-> IF InFlight(read[r]) THEN [read[r] EXCEPT !.pc = "stopping"]
                                ELSE read[r]]
    /\ UNCHANGED now

\* mutant: plain gather, which raises whichever failure comes first.
RaisesFirstFailure(r) == Failed(r)
\* gather_first_wins: the lead is awaited first, and the notes only after it.
Raises(r) == Failed(r) /\ (r = "notes" => Read("lead"))

BothFailed == \E r \in Started :
    phase = "both" /\ Raises(r) /\ Leave(Told(r, read[r].result))

Found(r) == Read(r) /\ read[r].result = "found"
Missed(r) == Read(r) /\ read[r].result = "missing"

\* A page without the note is read once more, after a pause, if time is left.
BothRead ==
    /\ phase = "both" /\ Read("lead")
    /\ \/ Found("notes") /\ Leave("ok")
       \/ Missed("notes") /\ Deadline - now < RereadMin /\ Leave("note_not_found")
       \/ /\ Missed("notes") /\ Deadline - now >= RereadMin
          /\ phase' = "reread"
          /\ read' = [read EXCEPT !["reread"] =
                         [@ EXCEPT !.pc = "sleep", !.until = now + RereadDelay]]
          /\ UNCHANGED <<now, outcome>>

RereadDone ==
    /\ phase = "reread"
    /\ \/ Failed("reread") /\ Leave(Told("reread", read["reread"].result))
       \/ Found("reread") /\ Leave("ok")
       \/ Missed("reread") /\ Leave("note_not_found")

Drained == \A r \in Reads : read[r].pc # "stopping"
Return ==
    /\ phase = "leaving" /\ Drained /\ phase' = "ended"
    /\ UNCHANGED <<now, read, outcome>>

\* asyncio.timeout cancels the judgement, and with it what it awaits.  (It never
\* lands on a drain: FitsAssumption ends the first two reads before it, and a
\* re-read has no sibling.)
DeadlinePasses ==
    /\ phase \in {"both", "reread"} /\ now = Deadline
    /\ Leave("judgement_deadline_exceeded")

\* The loop resumes whatever is ready before the clock moves on.
Ready ==
    \/ phase \in {"start", "leaving", "ended"}
    \/ phase = "both" /\ (Failed("lead") \/ (Read("lead") /\ read["notes"].pc = "done"))
    \/ phase = "reread" /\ read["reread"].pc = "done"
    \/ \E r \in Reads : InFlight(read[r]) /\ read[r].until <= now
FetchTick == ~Ready /\ now < Deadline /\ now' = now + 1 /\ UNCHANGED <<read, phase, outcome>>

FetchNext ==
    \/ StartBoth \/ BothFailed \/ BothRead \/ RereadDone
    \/ Return \/ DeadlinePasses \/ FetchTick
    \/ \E r \in Reads : Answer(r) \/ CallFails(r) \/ Wake(r) \/ Stop(r)

FetchSpec == FetchInit /\ [][FetchNext]_fetchVars

-----------------------------------------------------------------------------
(* Properties *)

\* Whenever the lead's read failed, what the CRM is told is the lead's failure,
\* in whatever order the two reads failed and whatever they waited for first: a
\* missing lead is never reported as the notes' 503 (gather_first_wins).
LeadErrorWins ==
    /\ outcome \notin {"none", "judgement_deadline_exceeded"} /\ Failed("lead") =>
          outcome = Told("lead", read["lead"].result)
    /\ outcome = "lead_not_found" => read["lead"].result = "not_found"

\* The first two reads always end by themselves: an outage of the CRM is
\* reported as one, and only a re-read can run into the deadline, its retries
\* and a 429's Retry-After included (RETRY_AFTER_CAP_SECONDS).
OutageToldAsOutage ==
    outcome = "judgement_deadline_exceeded" => Read("lead") /\ Missed("notes")

\* The deadline never cuts off a wait of the service's own: a pause or a retry
\* that was bound to end too late is not begun (call_with_watchdog's deadline,
\* NOTE_REREAD_MIN_REMAINING_SECONDS).
DeadlineCutsNoWait ==
    [][now = Deadline /\ outcome' = "judgement_deadline_exceeded" =>
          \A r \in Reads : read[r].pc # "sleep"]_fetchVars

=============================================================================
